---- MODULE Spec2Model ----
(***************************************************************************)
(* Multi-stream event correlation and scoring engine of Project Sentinel.  *)
(*                                                                         *)
(* Two source trees implement the rule set:                                *)
(*   Team01_sentinel/src  (definitions without prefix)                     *)
(*   TeamGmora_AgentX/src (definitions prefixed AgentX_)                   *)
(*                                                                         *)
(* Encoding of Python values                                               *)
(*   timestamp  an ISO-8601 string of second precision is the integer      *)
(*              number of seconds; string order and instant order agree    *)
(*              on such strings, fromisoformat is the parse of one. A      *)
(*              string fromisoformat rejects and that sorts before the     *)
(*              well-formed ones (such as "13/08/2025 16:00") is a         *)
(*              negative number. The same instant spelled with another    *)
(*              separator ("2025-08-13t16:00:01", which fromisoformat      *)
(*              accepts and which sorts after the strings with "T") is     *)
(*              1000 plus the number of seconds.                           *)
(*   float      an exact rational num/den; a value stored after            *)
(*              round(x, 1) is the integer number of tenths, after         *)
(*              round(x, 2) the integer number of hundredths.              *)
(*   accuracy   vision confidence in hundredths (0.95 is 95).              *)
(*   None       "None" in a string-typed field; <<>> in a numeric field    *)
(*              that may be None (a present number x is <<x>>).            *)
(*   dict       a record; an absent key is absent from DOMAIN.             *)
(***************************************************************************)
EXTENDS Integers, Sequences, FiniteSets, TLC

VARIABLES
    pos_events,           \* EventDetectionEngine.pos_events
    rfid_events,          \* EventDetectionEngine.rfid_events
    product_recognition,  \* EventDetectionEngine.product_recognition
    queue_monitoring,     \* EventDetectionEngine.queue_monitoring
    inventory_snapshots,  \* EventDetectionEngine.inventory_snapshots
    products,             \* EventDetectionEngine.products (catalog)
    thresholds,           \* config.THRESHOLDS as passed to the rules
    clock,                \* wall clock read by datetime.now()
    detected_events,      \* EventDetectionEngine.detected_events
    prev_detected,        \* history: detected_events of the previous pass
    runs,                 \* history: number of passes completed
    saved,                \* lines written by save_events
    op,                   \* name of the operation applied last
    result,               \* return value of the rule applied last
    scores                \* <<s1, s2>>: scores handed to a severity classifier

vars == <<pos_events, rfid_events, product_recognition, queue_monitoring,
          inventory_snapshots, products, thresholds, clock, detected_events,
          prev_detected, runs, saved, op, result, scores>>

inputs == <<pos_events, rfid_events, product_recognition, queue_monitoring,
            inventory_snapshots, products, thresholds>>

-----------------------------------------------------------------------------
(* Python helpers                                                          *)

None == "None"
NoneNum == <<>>
Some(x) == <<x>>

Min(a, b) == IF a <= b THEN a ELSE b
Max(a, b) == IF a >= b THEN a ELSE b
Abs(a) == IF a >= 0 THEN a ELSE -a

\* round(num/den, k) expressed in units of 10^-k: the caller scales num.
\* Python rounds half to even.
RoundHalfEven(num, den) ==
    LET q == num \div den
        r == num % den
    IN  IF 2 * r < den THEN q
        ELSE IF 2 * r > den THEN q + 1
        ELSE IF q % 2 = 0 THEN q ELSE q + 1

\* dict.get(key) on a record
Has(d, k) == k \in DOMAIN d

\* the concatenation of a list of lists: the appends of a loop, in order
Flatten(lists) ==
    LET f[i \in 0..Len(lists)] == IF i = 0 THEN <<>> ELSE f[i - 1] \o lists[i]
    IN  f[Len(lists)]

SumSeq(s) ==
    LET f[i \in 0..Len(s)] == IF i = 0 THEN 0 ELSE f[i - 1] + s[i]
    IN  f[Len(s)]

MaxSeq(s) ==
    LET f[i \in 1..Len(s)] == IF i = 1 THEN s[1] ELSE Max(f[i - 1], s[i])
    IN  f[Len(s)]

Range(s) == {s[i] : i \in 1..Len(s)}

\* sorted(s, key=lambda x: x['timestamp']): stable insertion sort
SortByTimestamp(s) ==
    LET Insert(acc, e) ==
            LET k == Cardinality({j \in 1..Len(acc) : acc[j].timestamp <= e.timestamp})
            IN  SubSeq(acc, 1, k) \o <<e>> \o SubSeq(acc, k + 1, Len(acc))
        f[i \in 0..Len(s)] == IF i = 0 THEN <<>> ELSE Insert(f[i - 1], s[i])
    IN  f[Len(s)]

\* the instant t written with 't' for the separator
Respelled(t) == 1000 + t

\* datetime.fromisoformat(ts) of a well-formed second-precision string
fromisoformat(ts) == IF ts >= 1000 THEN ts - 1000 ELSE ts

\* datetime.isoformat(): the instant written with 'T'
isoformat(t) == t

\* datetime.fromisoformat(ts) raises ValueError: ts is not a valid instant
fromisoformat_raises(ts) == ts < 0

-----------------------------------------------------------------------------
(* Severity classifiers; score is the rational num/den                     *)

\* FraudDetectionAlgorithms._classify_severity (Team01)
Fraud_classify_severity(num, den) ==
    IF num >= 85 * den THEN "HIGH"
    ELSE IF num >= 60 * den THEN "MEDIUM"
    ELSE "LOW"

\* the operational classifier with the labels of its two upper tiers swapped
Mutant_Ops_classify_severity(num, den) ==
    IF num >= 80 * den THEN "MEDIUM"
    ELSE IF num >= 55 * den THEN "HIGH"
    ELSE "LOW"

\* OperationalAlgorithms._classify_severity (Team01)
Ops_classify_severity(num, den) ==
    IF num >= 80 * den THEN "HIGH"
    ELSE IF num >= 55 * den THEN "MEDIUM"
    ELSE "LOW"

\* InventoryAlgorithms._classify_severity (Team01)
Inventory_classify_severity(num, den) ==
    IF num >= 80 * den THEN "HIGH"
    ELSE IF num >= 55 * den THEN "MEDIUM"
    ELSE "LOW"

\* FraudDetectionAlgorithms._classify_severity (AgentX; the operational and
\* inventory classes of AgentX repeat it)
AgentX_classify_severity(num, den) ==
    IF num >= 80 * den THEN "CRITICAL"
    ELSE IF num >= 60 * den THEN "HIGH"
    ELSE IF num >= 40 * den THEN "MEDIUM"
    ELSE "LOW"

\* FraudDetectionAlgorithms._calculate_risk_score (AgentX): base plus the
\* factors, all over the common denominator den
AgentX_calculate_risk_score(base, factors, den) ==
    Min(base + SumSeq(factors), 100 * den)

\* FraudDetectionAlgorithms._calculate_confidence_score (Team01), in tenths;
\* consistency_score is given in hundredths
calculate_confidence_score(evidence_count, consistency) ==
    LET base_confidence == Min(evidence_count * 25, 75)
    IN  RoundHalfEven(Min(base_confidence * 100 + consistency * 25, 10000) * 10, 100)

-----------------------------------------------------------------------------
(* Team01 FraudDetectionAlgorithms                                         *)

\* d.get(k) for a string-typed key
Get(d, k) == IF Has(d, k) THEN d[k] ELSE None

\* a lookup that prices a SKU missing from the catalog at a default
Mutant_CatalogPrice(products_catalog, sku) ==
    IF sku \in DOMAIN products_catalog /\ Has(products_catalog[sku], "price")
    THEN Some(products_catalog[sku].price)
    ELSE Some(100)

\* products_catalog.get(sku, {}).get('price'): NoneNum or Some(price).
\* Prices are whole currency units, so round(price, 2) is the price.
CatalogPrice(products_catalog, sku) ==
    IF sku \in DOMAIN products_catalog /\ Has(products_catalog[sku], "price")
    THEN Some(products_catalog[sku].price)
    ELSE NoneNum

\* Python truthiness of an optional number: not None and not zero
Truthy(optnum) == optnum # NoneNum /\ optnum[1] # 0

\* found_in_pos with the last offset of the window left out
Mutant_found_in_pos(rfid, pos_events_, time_window) ==
    \E offset \in (-time_window)..(time_window - 1) :
        \E i \in 1..Len(pos_events_) :
            /\ fromisoformat(pos_events_[i].timestamp)
                   = fromisoformat(rfid.timestamp) + offset
            /\ pos_events_[i].data.sku = Get(rfid.data, "sku")
            /\ pos_events_[i].station_id = rfid.station_id

\* the windowed join of detect_scanner_avoidance: offsets -W..W around the
\* RFID instant, POS records indexed by their parsed instant
found_in_pos(rfid, pos_events_, time_window) ==
    \E offset \in (-time_window)..time_window :
        \E i \in 1..Len(pos_events_) :
            /\ fromisoformat(pos_events_[i].timestamp)
                   = fromisoformat(rfid.timestamp) + offset
            /\ pos_events_[i].data.sku = Get(rfid.data, "sku")
            /\ pos_events_[i].station_id = rfid.station_id

\* a scanner-avoidance detection attributed to a customer
Mutant_scanner_avoidance_event(rfid, products_catalog) ==
    LET rfid_sku == Get(rfid.data, "sku")
        estimated_loss == CatalogPrice(products_catalog, rfid_sku)
        \* scores over the denominator 30
        base_risk == 75 * 30
        price_factor == IF Truthy(estimated_loss)
                        THEN Min(estimated_loss[1], 20 * 30) ELSE 0
        time_factor == 5 * 30
        risk_score == Min(base_risk + price_factor + time_factor, 100 * 30)
        event == [timestamp |-> rfid.timestamp,
                  type |-> "SCANNER_AVOIDANCE",
                  station_id |-> rfid.station_id,
                  product_sku |-> rfid_sku,
                  risk_score |-> RoundHalfEven(risk_score * 10, 30),
                  severity |-> Fraud_classify_severity(risk_score, 30),
                  confidence |-> calculate_confidence_score(1, 80),
                  evidence |-> rfid,
                  customer_id |-> "C1"]
    IN  IF Truthy(estimated_loss)
        THEN event @@ ("estimated_loss" :> estimated_loss)
        ELSE event

\* the event detect_scanner_avoidance appends for an unmatched RFID record
scanner_avoidance_event(rfid, products_catalog) ==
    LET rfid_sku == Get(rfid.data, "sku")
        estimated_loss == CatalogPrice(products_catalog, rfid_sku)
        \* scores over the denominator 30
        base_risk == 75 * 30
        price_factor == IF Truthy(estimated_loss)
                        THEN Min(estimated_loss[1], 20 * 30) ELSE 0
        time_factor == 5 * 30
        risk_score == Min(base_risk + price_factor + time_factor, 100 * 30)
        event == [timestamp |-> rfid.timestamp,
                  type |-> "SCANNER_AVOIDANCE",
                  station_id |-> rfid.station_id,
                  product_sku |-> rfid_sku,
                  risk_score |-> RoundHalfEven(risk_score * 10, 30),
                  severity |-> Fraud_classify_severity(risk_score, 30),
                  confidence |-> calculate_confidence_score(1, 80),
                  evidence |-> rfid]
    IN  IF Truthy(estimated_loss)
        THEN event @@ ("estimated_loss" :> estimated_loss)
        ELSE event

\* detect_scanner_avoidance raises ValueError: it parses the timestamp of
\* every POS record and of every RFID record that has a sku in the scan area
scanner_avoidance_raises(rfid_events_, pos_events_) ==
    \/ \E i \in 1..Len(pos_events_) : fromisoformat_raises(pos_events_[i].timestamp)
    \/ \E i \in 1..Len(rfid_events_) :
           /\ Get(rfid_events_[i].data, "sku") \notin {None, ""}
           /\ Get(rfid_events_[i].data, "location") = "IN_SCAN_AREA"
           /\ fromisoformat_raises(rfid_events_[i].timestamp)

\* FraudDetectionAlgorithms.detect_scanner_avoidance
detect_scanner_avoidance(rfid_events_, pos_events_, time_window, products_catalog) ==
    LET PerRfid(rfid) ==
            LET rfid_sku == Get(rfid.data, "sku")
                rfid_location == Get(rfid.data, "location")
            IN  IF rfid_sku = None \/ rfid_sku = "" \/ rfid_location # "IN_SCAN_AREA"
                THEN <<>>
                ELSE IF found_in_pos(rfid, pos_events_, time_window)
                THEN <<>>
                ELSE <<scanner_avoidance_event(rfid, products_catalog)>>
    IN  Flatten([n_ \in 1..Len(rfid_events_) |-> PerRfid(rfid_events_[n_])])

\* pos_index keeping the first POS record stored under a key
Mutant_pos_index(pos_events_, timestamp, station) ==
    LET at == {i \in 1..Len(pos_events_) :
                  /\ pos_events_[i].timestamp = timestamp
                  /\ pos_events_[i].station_id = station}
    IN  IF at = {} THEN 0 ELSE CHOOSE i \in at : \A j \in at : i <= j

\* pos_index of detect_barcode_switching: the last POS record stored under
\* the key (timestamp, station_id); 0 when the key is not in the index
pos_index(pos_events_, timestamp, station) ==
    LET at == {i \in 1..Len(pos_events_) :
                  /\ pos_events_[i].timestamp = timestamp
                  /\ pos_events_[i].station_id = station}
    IN  IF at = {} THEN 0 ELSE CHOOSE i \in at : \A j \in at : j <= i

\* the event detect_barcode_switching appends for a mismatch
barcode_switching_event(recognition, pos, confidence_threshold, products_catalog) ==
    LET confidence == recognition.data.accuracy
        predicted_sku == recognition.data.predicted_product
        scanned_sku == pos.data.sku
        predicted_price == CatalogPrice(products_catalog, predicted_sku)
        scanned_price == CatalogPrice(products_catalog, scanned_sku)
        price_gap == IF predicted_price # NoneNum /\ scanned_price # NoneNum
                     THEN Max(predicted_price[1] - scanned_price[1], 0) ELSE 0
        \* scores over the denominator 100
        base_risk == 70 * 100
        confidence_boost == (confidence - confidence_threshold) * 30
        price_gap_factor == IF price_gap > 0 THEN Min(price_gap * 20, 25 * 100) ELSE 0
        risk_score == Min(base_risk + confidence_boost + price_gap_factor, 100 * 100)
        event == [timestamp |-> recognition.timestamp,
                  type |-> "BARCODE_SWITCHING",
                  station_id |-> recognition.station_id,
                  customer_id |-> pos.data.customer_id,
                  actual_sku |-> predicted_sku,
                  scanned_sku |-> scanned_sku,
                  confidence |-> confidence,
                  risk_score |-> RoundHalfEven(risk_score * 10, 100),
                  severity |-> Fraud_classify_severity(risk_score, 100),
                  detection_confidence |-> calculate_confidence_score(2, confidence),
                  price_gap |-> Some(price_gap),
                  evidence |-> [recognition |-> recognition, pos |-> pos]]
        with_predicted == IF predicted_price # NoneNum
                          THEN event @@ ("predicted_price" :> predicted_price)
                          ELSE event
    IN  IF scanned_price # NoneNum
        THEN with_predicted @@ ("scanned_price" :> scanned_price)
        ELSE with_predicted

\* FraudDetectionAlgorithms.detect_barcode_switching
detect_barcode_switching(product_recognition_, pos_events_, confidence_threshold, products_catalog) ==
    LET PerRecognition(recognition) ==
            LET k == pos_index(pos_events_, recognition.timestamp, recognition.station_id)
            IN  IF recognition.data.accuracy >= confidence_threshold
                   /\ k # 0
                   /\ recognition.data.predicted_product # pos_events_[k].data.sku
                THEN <<barcode_switching_event(recognition, pos_events_[k],
                                               confidence_threshold, products_catalog)>>
                ELSE <<>>
    IN  Flatten([n_ \in 1..Len(product_recognition_) |-> PerRecognition(product_recognition_[n_])])

\* min(math.log(weight_diff_percent + 1) * 15, 35.0) in tenths, for the
\* percentage num/den.  log(p + 1) * 15 reaches 35 at p = e^(7/3) - 1 =
\* 9.3123...; below it the value is tabulated at the whole percents.
weight_factor(num, den) ==
    LET LogTimes15 == <<104, 165, 208, 241, 269, 292, 312, 330, 345>>
        whole == num \div den
    IN  IF num * 10000 >= 93123 * den THEN 350
        ELSE IF whole = 0 THEN 0
        ELSE LogTimes15[whole]

\* exceeds_tolerance firing at the tolerance itself
Mutant_exceeds_tolerance(actual_weight, expected_weight, tolerance_percent) ==
    Abs(actual_weight - expected_weight) * 100 >= tolerance_percent * expected_weight

\* abs(actual_weight - expected_weight) / expected_weight * 100 > tolerance
exceeds_tolerance(actual_weight, expected_weight, tolerance_percent) ==
    Abs(actual_weight - expected_weight) * 100 > tolerance_percent * expected_weight

\* the event detect_weight_discrepancies appends for a POS record
weight_discrepancy_event(pos, products_catalog) ==
    LET sku == pos.data.sku
        actual_weight == pos.data.weight_g
        expected_weight == products_catalog[sku].weight
        diff_num == Abs(actual_weight - expected_weight) * 100
        price == CatalogPrice(products_catalog, sku)
        \* scores over the denominator 400
        base_risk == 55 * 400
        price_risk == IF Truthy(price) THEN Min(price[1] * 10, 15 * 400) ELSE 0
        risk_score == Min(base_risk + weight_factor(diff_num, expected_weight) * 40
                              + price_risk, 100 * 400)
        event == [timestamp |-> pos.timestamp,
                  type |-> "WEIGHT_DISCREPANCY",
                  station_id |-> pos.station_id,
                  customer_id |-> pos.data.customer_id,
                  product_sku |-> sku,
                  expected_weight |-> expected_weight,
                  actual_weight |-> actual_weight,
                  difference_percent |-> RoundHalfEven(diff_num * 100, expected_weight),
                  risk_score |-> RoundHalfEven(risk_score * 10, 400),
                  severity |-> Fraud_classify_severity(risk_score, 400),
                  confidence |-> calculate_confidence_score(1, 85),
                  evidence |-> pos]
    IN  IF Truthy(price) THEN event @@ ("estimated_loss" :> price) ELSE event

\* the division by expected_weight raises ZeroDivisionError
weight_discrepancies_raises(pos_events_, products_catalog) ==
    \E i \in 1..Len(pos_events_) :
        /\ pos_events_[i].data.sku \in DOMAIN products_catalog
        /\ products_catalog[pos_events_[i].data.sku].weight = 0

\* FraudDetectionAlgorithms.detect_weight_discrepancies, when it returns
detect_weight_discrepancies(pos_events_, products_catalog, tolerance_percent) ==
    LET PerPos(pos) ==
            IF pos.data.sku \in DOMAIN products_catalog
               /\ products_catalog[pos.data.sku].weight # 0
               /\ exceeds_tolerance(pos.data.weight_g,
                                    products_catalog[pos.data.sku].weight,
                                    tolerance_percent)
            THEN <<weight_discrepancy_event(pos, products_catalog)>>
            ELSE <<>>
    IN  Flatten([n_ \in 1..Len(pos_events_) |-> PerPos(pos_events_[n_])])

-----------------------------------------------------------------------------
(* Team01 OperationalAlgorithms                                            *)

\* a queue flagged from the threshold on, not only above it
Mutant_detect_long_queue(queue_events, threshold) ==
    LET PerQueue(queue) ==
            LET customer_count == queue.data.customer_count
                risk_score == Min(48 + Max(customer_count - threshold, 0) * 8, 92)
            IN  IF customer_count >= threshold
                THEN <<[timestamp |-> queue.timestamp,
                        type |-> "LONG_QUEUE",
                        station_id |-> queue.station_id,
                        num_of_customers |-> customer_count,
                        risk_score |-> risk_score * 10,
                        severity |-> Ops_classify_severity(risk_score, 1),
                        evidence |-> queue]>>
                ELSE <<>>
    IN  Flatten([n_ \in 1..Len(queue_events) |-> PerQueue(queue_events[n_])])

\* OperationalAlgorithms.detect_long_queue
detect_long_queue(queue_events, threshold) ==
    LET PerQueue(queue) ==
            LET customer_count == queue.data.customer_count
                risk_score == Min(48 + Max(customer_count - threshold, 0) * 8, 92)
            IN  IF customer_count > threshold
                THEN <<[timestamp |-> queue.timestamp,
                        type |-> "LONG_QUEUE",
                        station_id |-> queue.station_id,
                        num_of_customers |-> customer_count,
                        risk_score |-> risk_score * 10,
                        severity |-> Ops_classify_severity(risk_score, 1),
                        evidence |-> queue]>>
                ELSE <<>>
    IN  Flatten([n_ \in 1..Len(queue_events) |-> PerQueue(queue_events[n_])])

\* OperationalAlgorithms.detect_long_wait_time
detect_long_wait_time(queue_events, threshold_seconds) ==
    LET PerQueue(queue) ==
            LET dwell_time == queue.data.average_dwell_time
                customer_count == queue.data.customer_count
                overage == dwell_time - threshold_seconds
                \* scores over the denominator 4: (overage / 60) * 15 = overage / 4
                time_risk == Min(overage, 35 * 4)
                customer_risk == Min(customer_count * 3, 15) * 4
                risk_score == Min(45 * 4 + time_risk + customer_risk, 90 * 4)
            IN  IF dwell_time > threshold_seconds
                THEN <<[timestamp |-> queue.timestamp,
                        type |-> "LONG_WAIT",
                        station_id |-> queue.station_id,
                        wait_time_seconds |-> dwell_time * 10,
                        customer_count |-> customer_count,
                        risk_score |-> RoundHalfEven(risk_score * 10, 4),
                        severity |-> Ops_classify_severity(risk_score, 4),
                        evidence |-> queue]>>
                ELSE <<>>
    IN  Flatten([n_ \in 1..Len(queue_events) |-> PerQueue(queue_events[n_])])

CrashStatuses == {"System Crash", "Read Error"}

\* every record taken as a crash record, whatever its status
Mutant_crash_sources(pos_events_, product_recognition_, rfid_events_, queue_events) ==
    LET Tagged(stream, source) ==
            [i \in 1..Len(stream) |->
                [timestamp |-> stream[i].timestamp, event |-> stream[i], source |-> source]]
    IN  SortByTimestamp(Tagged(pos_events_, "POS")
                        \o Tagged(product_recognition_, "Product Recognition")
                        \o Tagged(rfid_events_, "RFID")
                        \o Tagged(queue_events, "Queue Monitor"))

\* all_sources of detect_system_crashes: the faulty records of each stream
\* tagged with the stream's name, sorted by timestamp
crash_sources(pos_events_, product_recognition_, rfid_events_, queue_events) ==
    LET Tagged(stream, source) ==
            LET Tag(e) == IF Get(e, "status") \in CrashStatuses
                          THEN <<[timestamp |-> e.timestamp, event |-> e, source |-> source]>>
                          ELSE <<>>
            IN  Flatten([n_ \in 1..Len(stream) |-> Tag(stream[n_])])
    IN  SortByTimestamp(Tagged(pos_events_, "POS")
                        \o Tagged(product_recognition_, "Product Recognition")
                        \o Tagged(rfid_events_, "RFID")
                        \o Tagged(queue_events, "Queue Monitor"))

\* detect_system_crashes raises ValueError: it parses the start and the end
\* of every crash session
system_crashes_raises(pos_events_, product_recognition_, rfid_events_, queue_events) ==
    LET all_sources == crash_sources(pos_events_, product_recognition_,
                                     rfid_events_, queue_events)
        Key(x) == <<Get(x.event, "station_id"), x.source>>
        same(i) == {j \in 1..Len(all_sources) : Key(all_sources[j]) = Key(all_sources[i])}
    IN  \E i \in 1..Len(all_sources) :
            /\ \/ \A j \in same(i) : i <= j
               \/ \A j \in same(i) : j <= i
            /\ fromisoformat_raises(all_sources[i].timestamp)

\* OperationalAlgorithms.detect_system_crashes
detect_system_crashes(pos_events_, product_recognition_, rfid_events_, queue_events) ==
    LET all_sources == crash_sources(pos_events_, product_recognition_,
                                     rfid_events_, queue_events)
        Key(x) == <<Get(x.event, "station_id"), x.source>>
        PerSource(i, x) ==
            LET same == {j \in 1..Len(all_sources) : Key(all_sources[j]) = Key(x)}
                first == CHOOSE j \in same : \A k \in same : j <= k
                last == CHOOSE j \in same : \A k \in same : k <= j
                count == Cardinality(same)
                start == all_sources[first].timestamp
                end == all_sources[last].timestamp
                duration == fromisoformat(end) - fromisoformat(start)
                \* scores in tenths: duration / 10 is duration tenths
                count_factor == Min(count * 2, 20) * 10
                duration_factor == Min(duration, 5 * 10)
                risk_score == Min(75 * 10 + count_factor + duration_factor, 100 * 10)
            IN  IF i # first THEN <<>>
                ELSE <<[timestamp |-> start,
                        type |-> "SYSTEM_CRASH",
                        station_id |-> Get(x.event, "station_id"),
                        system_source |-> x.source,
                        crash_count |-> count,
                        duration_seconds |-> duration,
                        status |-> Get(x.event, "status"),
                        risk_score |-> risk_score,
                        severity |-> Ops_classify_severity(risk_score, 10)]>>
    IN  Flatten([n_ \in 1..Len(all_sources) |-> PerSource(n_, all_sources[n_])])

\* staff needed on a long wait alone, whatever the customer count
Mutant_needs_staff_on_wait(customer_count, dwell_time, customer_threshold, wait_threshold) ==
    \/ dwell_time > wait_threshold
    \/ 2 * customer_count > 3 * customer_threshold

\* staff needed from one and a half times the threshold on, not only above it
Mutant_needs_staff(customer_count, dwell_time, customer_threshold, wait_threshold) ==
    \/ customer_count > customer_threshold /\ dwell_time > wait_threshold
    \/ 2 * customer_count >= 3 * customer_threshold

\* the trigger of recommend_staffing; count > threshold * 1.5 without floats
needs_staff(customer_count, dwell_time, customer_threshold, wait_threshold) ==
    \/ customer_count > customer_threshold /\ dwell_time > wait_threshold
    \/ 2 * customer_count > 3 * customer_threshold

\* OperationalAlgorithms.recommend_staffing
recommend_staffing(queue_events, customer_threshold, wait_threshold) ==
    LET PerQueue(queue) ==
            LET customer_count == queue.data.customer_count
                dwell_time == queue.data.average_dwell_time
                \* scores over the denominator 12: x / 60 * 5 = x / 12
                wait_term == IF dwell_time > wait_threshold
                             THEN Min(dwell_time - wait_threshold, 20 * 12) ELSE 0
                risk_score == Min(58 * 12
                                  + Max(customer_count - customer_threshold, 0) * 4 * 12
                                  + wait_term, 96 * 12)
            IN  IF needs_staff(customer_count, dwell_time, customer_threshold, wait_threshold)
                THEN <<[timestamp |-> queue.timestamp,
                        type |-> "STAFFING_NEEDS",
                        station_id |-> queue.station_id,
                        staff_type |-> "Cashier",
                        reason |-> <<customer_count, dwell_time>>,
                        risk_score |-> RoundHalfEven(risk_score * 10, 12),
                        severity |-> Ops_classify_severity(risk_score, 12),
                        evidence |-> queue]>>
                ELSE <<>>
    IN  Flatten([n_ \in 1..Len(queue_events) |-> PerQueue(queue_events[n_])])

\* timedelta(minutes=m) in seconds
timedelta_minutes(m) == m * 60

\* pressure_samples with a window that excludes its far edge
Mutant_pressure_samples(queue_events, station_id, queue_threshold, wait_threshold, window_minutes) ==
    LET events == SelectSeq(queue_events, LAMBDA e : e.station_id = station_id)
        events_sorted == SortByTimestamp(events)
        breaching == SelectSeq(events_sorted,
                               LAMBDA e : \/ e.data.customer_count > queue_threshold
                                          \/ e.data.average_dwell_time > wait_threshold)
        latest == events_sorted[Len(events_sorted)].timestamp
        reference_time == fromisoformat(latest)
    IN  IF window_minutes # 0 /\ ~fromisoformat_raises(latest)
        THEN SelectSeq(breaching,
                       LAMBDA sample :
                           /\ ~fromisoformat_raises(sample.timestamp)
                           /\ reference_time - fromisoformat(sample.timestamp)
                                  < timedelta_minutes(window_minutes))
        ELSE breaching

\* pressure_samples of detect_station_pressure for one station: the
\* station's samples sorted by timestamp, those breaching a threshold, and,
\* when window_minutes is not zero and the latest timestamp parses, those
\* whose timestamp parses and is no further than the window from it
pressure_samples(queue_events, station_id, queue_threshold, wait_threshold, window_minutes) ==
    LET events == SelectSeq(queue_events, LAMBDA e : e.station_id = station_id)
        events_sorted == SortByTimestamp(events)
        breaching == SelectSeq(events_sorted,
                               LAMBDA e : \/ e.data.customer_count > queue_threshold
                                          \/ e.data.average_dwell_time > wait_threshold)
        latest == events_sorted[Len(events_sorted)].timestamp
        reference_time == fromisoformat(latest)
    IN  IF window_minutes # 0 /\ ~fromisoformat_raises(latest)
        THEN SelectSeq(breaching,
                       LAMBDA sample :
                           /\ ~fromisoformat_raises(sample.timestamp)
                           /\ reference_time - fromisoformat(sample.timestamp)
                                  <= timedelta_minutes(window_minutes))
        ELSE breaching

\* risk_score of detect_station_pressure, in tenths:
\* (max_wait - wait_threshold) / 60 * 6 is (max_wait - wait_threshold) tenths
station_pressure_risk(max_queue, max_wait, queue_threshold, wait_threshold) ==
    Min(60 * 10 + (max_queue - queue_threshold) * 7 * 10
            + Max(0, max_wait - wait_threshold), 100 * 10)

\* max() of an empty sequence raises ValueError: a station with no sample in
\* pressure_samples passes the occurrence test only if the threshold is <= 0
station_pressure_raises(queue_events, queue_threshold, wait_threshold, occurrences_threshold, window_minutes) ==
    \E i \in 1..Len(queue_events) :
        /\ Len(pressure_samples(queue_events, queue_events[i].station_id,
                                queue_threshold, wait_threshold, window_minutes)) = 0
        /\ occurrences_threshold <= 0

\* OperationalAlgorithms.detect_station_pressure, when it returns
detect_station_pressure(queue_events, queue_threshold, wait_threshold, occurrences_threshold, window_minutes) ==
    LET PerStation(i, event) ==
            LET station_id == event.station_id
                samples == pressure_samples(queue_events, station_id, queue_threshold,
                                            wait_threshold, window_minutes)
                n == Len(samples)
                queues == [k \in 1..n |-> samples[k].data.customer_count]
                waits == [k \in 1..n |-> samples[k].data.average_dwell_time]
                risk_score == station_pressure_risk(MaxSeq(queues), MaxSeq(waits),
                                                    queue_threshold, wait_threshold)
            IN  IF \E j \in 1..(i - 1) : queue_events[j].station_id = station_id
                THEN <<>>
                ELSE IF n < occurrences_threshold \/ n = 0
                THEN <<>>
                ELSE <<[timestamp |-> samples[n].timestamp,
                        type |-> "STATION_PERFORMANCE_ALERT",
                        station_id |-> station_id,
                        issues_detected |-> n,
                        max_queue |-> MaxSeq(queues),
                        max_wait_seconds |-> MaxSeq(waits),
                        average_queue |-> RoundHalfEven(SumSeq(queues) * 10, n),
                        average_wait_seconds |-> RoundHalfEven(SumSeq(waits) * 10, n),
                        risk_score |-> risk_score,
                        severity |-> Ops_classify_severity(risk_score, 10),
                        recent_samples |->
                            [k \in 1..Min(n, 3) |->
                                [timestamp |-> samples[n - Min(n, 3) + k].timestamp,
                                 queue |-> samples[n - Min(n, 3) + k].data.customer_count,
                                 wait_seconds |->
                                     samples[n - Min(n, 3) + k].data.average_dwell_time]],
                        window_minutes |-> window_minutes]>>
    IN  Flatten([n_ \in 1..Len(queue_events) |-> PerStation(n_, queue_events[n_])])

-----------------------------------------------------------------------------
(* Team01 aggregator of high-risk customers                                *)

\* Counter(items).most_common(): the distinct items, most frequent first,
\* ties in the order of first occurrence
most_common(items) ==
    LET Count(x) == Cardinality({i \in 1..Len(items) : items[i] = x})
        First(x) == CHOOSE i \in 1..Len(items) :
                        items[i] = x /\ \A j \in 1..(i - 1) : items[j] # x
        Before(x, y) == \/ Count(x) > Count(y)
                        \/ Count(x) = Count(y) /\ First(x) < First(y)
        distinct == Range(items)
    IN  [k \in 1..Cardinality(distinct) |->
            LET x == CHOOSE x \in distinct :
                         Cardinality({y \in distinct : Before(y, x)}) = k - 1
            IN  [station_id |-> x, event_count |-> Count(x)]]

\* an event qualifying only at the minimum score itself
Mutant_qualified(event, min_score) == event.risk_score >= min_score * 10

\* "e.get('risk_score', 0) >= (min_score - 10)": scores in tenths
qualified(event, min_score) == event.risk_score >= (min_score - 10) * 10

\* the increment counted per qualifying event beyond min_events
Mutant_compounded_score(total, n, min_events) ==
    Min(total + (n - min_events) * 5 * 10 * n, 100 * 10 * n)

\* "min(avg_score + (len(qualified_events) - min_events + 1) * 5, 100)" in
\* tenths over the denominator n, avg_score being total / n
compounded_score(total, n, min_events) ==
    Min(total + (n - min_events + 1) * 5 * 10 * n, 100 * 10 * n)

\* FraudDetectionAlgorithms.detect_high_risk_customers
detect_high_risk_customers(fraud_events, min_events, min_score) ==
    LET Customer(e) == Get(e, "customer_id")
        Grouped(e) == Customer(e) # None /\ Customer(e) # ""
        PerEvent(i, event) ==
            LET customer_id == Customer(event)
                events == SelectSeq(fraud_events, LAMBDA e : Customer(e) = customer_id)
                qualified_events ==
                    SelectSeq(events, LAMBDA e : qualified(e, min_score))
                n == Len(qualified_events)
                total == SumSeq([k \in 1..n |-> qualified_events[k].risk_score])
                score == compounded_score(total, n, min_events)
                station_ids ==
                    LET Station(e) == IF Get(e, "station_id") \in {None, ""}
                                      THEN <<>> ELSE <<e.station_id>>
                    IN  Flatten([n_ \in 1..Len(qualified_events) |-> Station(qualified_events[n_])])
                station_counts == most_common(station_ids)
            IN  IF \/ ~Grouped(event)
                   \/ \E j \in 1..(i - 1) : Customer(fraud_events[j]) = customer_id
                   \/ n < min_events
                   \/ n = 0
                THEN <<>>
                ELSE <<[timestamp |-> qualified_events[n].timestamp,
                        type |-> "HIGH_RISK_CUSTOMER",
                        customer_id |-> customer_id,
                        risk_score |-> RoundHalfEven(score, n),
                        severity |-> Fraud_classify_severity(score, 10 * n),
                        fraud_event_count |-> Len(events),
                        recent_events |->
                            [k \in 1..Min(n, 3) |->
                                LET e == qualified_events[n - Min(n, 3) + k]
                                IN  [type |-> e.type,
                                     timestamp |-> e.timestamp,
                                     risk_score |-> e.risk_score,
                                     station_id |-> Get(e, "station_id")]],
                        station_id |-> IF Len(station_counts) > 0
                                       THEN station_counts[1].station_id ELSE None,
                        stations_involved |->
                            [k \in 1..Len(station_counts) |-> station_counts[k].station_id],
                        station_summary |-> station_counts]>>
    IN  Flatten([n_ \in 1..Len(fraud_events) |-> PerEvent(n_, fraud_events[n_])])

-----------------------------------------------------------------------------
(* InventoryAlgorithms of both trees                                       *)

\* the order in which the snapshot dict lists its SKUs
SkuOrder == <<"A", "B">>

\* expected_inventory without the POS sales subtracted
Mutant_expected_inventory(inventory_snapshot, pos_events_) ==
    [sku \in DOMAIN inventory_snapshot |-> inventory_snapshot[sku]]

\* expected_inventory: the snapshot copy after every POS sale of a snapshot
\* SKU is subtracted
expected_inventory(inventory_snapshot, pos_events_) ==
    [sku \in DOMAIN inventory_snapshot |->
        inventory_snapshot[sku]
            - Cardinality({i \in 1..Len(pos_events_) : pos_events_[i].data.sku = sku})]

\* rfid_inventory.get(sku, 0): RFID detections of the SKU in the scan area
\* or on the shelf
rfid_inventory(rfid_events_, sku) ==
    Cardinality({i \in 1..Len(rfid_events_) :
                    /\ Get(rfid_events_[i].data, "sku") = sku
                    /\ Get(rfid_events_[i].data, "location") \in {"IN_SCAN_AREA", "SHELF"}})

\* inventory_differs with the threshold percent itself counted as exceeding
Mutant_inventory_differs(actual_count, expected_count, threshold_percent) ==
    /\ expected_count > 0
    /\ Abs(actual_count - expected_count) * 100 >= threshold_percent * expected_count

\* abs(actual - expected) / expected * 100 > threshold_percent, expected > 0
inventory_differs(actual_count, expected_count, threshold_percent) ==
    /\ expected_count > 0
    /\ Abs(actual_count - expected_count) * 100 > threshold_percent * expected_count

\* min(50 + diff_percent * 1.1, 95) over the denominator 10 * expected_count
inventory_risk(actual_count, expected_count) ==
    Min(500 * expected_count + 11 * Abs(actual_count - expected_count) * 100,
        950 * expected_count)

\* rfid['data']['sku'] and rfid['data']['location'] raise KeyError when the
\* key is absent (Team01 only)
inventory_discrepancies_raises(rfid_events_) ==
    \E i \in 1..Len(rfid_events_) :
        ~Has(rfid_events_[i].data, "sku") \/ ~Has(rfid_events_[i].data, "location")

\* InventoryAlgorithms.detect_inventory_discrepancies (Team01), when it
\* returns; now is the reading of datetime.now(); difference_percent is kept
\* unrounded, as the fraction <<numerator, denominator>>
detect_inventory_discrepancies(inventory_snapshot, rfid_events_, pos_events_, threshold_percent, now) ==
    LET expected == expected_inventory(inventory_snapshot, pos_events_)
        PerSku(sku) ==
            LET expected_count == expected[sku]
                actual_count == rfid_inventory(rfid_events_, sku)
                risk_score == inventory_risk(actual_count, expected_count)
            IN  IF sku \in DOMAIN inventory_snapshot
                   /\ inventory_differs(actual_count, expected_count, threshold_percent)
                THEN <<[timestamp |-> now,
                        type |-> "INVENTORY_DISCREPANCY",
                        sku |-> sku,
                        expected_inventory |-> expected_count,
                        actual_inventory |-> actual_count,
                        difference |-> actual_count - expected_count,
                        difference_percent |->
                            <<Abs(actual_count - expected_count) * 100, expected_count>>,
                        risk_score |-> RoundHalfEven(risk_score, expected_count),
                        severity |-> Inventory_classify_severity(risk_score,
                                                                 10 * expected_count)]>>
                ELSE <<>>
    IN  Flatten([n_ \in 1..Len(SkuOrder) |-> PerSku(SkuOrder[n_])])

\* InventoryAlgorithms.detect_inventory_discrepancies (AgentX): the
\* timestamp is the last RFID record's, the clock's only without RFID records
AgentX_detect_inventory_discrepancies(inventory_snapshot, rfid_events_, pos_events_, threshold_percent, now) ==
    LET expected == expected_inventory(inventory_snapshot, pos_events_)
        timestamp == IF Len(rfid_events_) > 0
                     THEN rfid_events_[Len(rfid_events_)].timestamp ELSE now
        PerSku(sku) ==
            LET expected_count == expected[sku]
                actual_count == rfid_inventory(rfid_events_, sku)
                risk_score == inventory_risk(actual_count, expected_count)
            IN  IF sku \in DOMAIN inventory_snapshot
                   /\ inventory_differs(actual_count, expected_count, threshold_percent)
                THEN <<[timestamp |-> timestamp,
                        type |-> "INVENTORY_DISCREPANCY",
                        SKU |-> sku,
                        Expected_Inventory |-> expected_count,
                        Actual_Inventory |-> actual_count,
                        Difference |-> actual_count - expected_count,
                        Difference_Percent |->
                            RoundHalfEven(Abs(actual_count - expected_count) * 10000,
                                          expected_count),
                        risk_score |-> RoundHalfEven(risk_score, expected_count),
                        severity |-> AgentX_classify_severity(risk_score,
                                                              10 * expected_count)]>>
                ELSE <<>>
    IN  Flatten([n_ \in 1..Len(SkuOrder) |-> PerSku(SkuOrder[n_])])

\* rfid_index / recognition_index of track_successful_operations: the last
\* record of the stream stored under (timestamp, station_id); 0 when absent
last_at(stream, timestamp, station) ==
    LET at == {i \in 1..Len(stream) :
                  stream[i].timestamp = timestamp /\ stream[i].station_id = station}
    IN  IF at = {} THEN 0 ELSE CHOOSE i \in at : \A j \in at : j <= i

\* InventoryAlgorithms.track_successful_operations (Team01)
track_successful_operations(pos_events_, rfid_events_, product_recognition_) ==
    LET PerPos(pos) ==
            LET r == last_at(rfid_events_, pos.timestamp, pos.station_id)
                v == last_at(product_recognition_, pos.timestamp, pos.station_id)
            IN  IF r # 0 /\ v # 0
                   /\ rfid_events_[r].data.sku = product_recognition_[v].data.predicted_product
                   /\ product_recognition_[v].data.predicted_product = pos.data.sku
                THEN <<[timestamp |-> pos.timestamp,
                        type |-> "SUCCESS",
                        station_id |-> pos.station_id,
                        customer_id |-> pos.data.customer_id,
                        product_sku |-> pos.data.sku,
                        service_score |-> 95,
                        severity |-> "LOW",
                        risk_score |-> 50]>>
                ELSE <<>>
    IN  Flatten([n_ \in 1..Len(pos_events_) |-> PerPos(pos_events_[n_])])

-----------------------------------------------------------------------------
(* Team01 EventDetectionEngine                                             *)

\* config.EVENT_TYPES.get(event_type, {}).get('id', 'E999')
EVENT_TYPES_id(event_type) ==
    CASE event_type = "SUCCESS" -> "E000"
      [] event_type = "SCANNER_AVOIDANCE" -> "E001"
      [] event_type = "BARCODE_SWITCHING" -> "E002"
      [] event_type = "WEIGHT_DISCREPANCY" -> "E003"
      [] event_type = "SYSTEM_CRASH" -> "E004"
      [] event_type = "LONG_QUEUE" -> "E005"
      [] event_type = "LONG_WAIT" -> "E006"
      [] event_type = "INVENTORY_DISCREPANCY" -> "E007"
      [] event_type = "STAFFING_NEEDS" -> "E008"
      [] event_type = "CHECKOUT_ACTION" -> "E009"
      [] event_type = "HIGH_RISK_CUSTOMER" -> "E010"
      [] event_type = "STATION_PERFORMANCE_ALERT" -> "E011"
      [] OTHER -> "E999"

\* config.EVENT_TYPES.get(event_type, {}).get('name', 'Unknown Event')
EVENT_TYPES_name(event_type) ==
    CASE event_type = "SUCCESS" -> "Succes Operation"
      [] event_type = "SCANNER_AVOIDANCE" -> "Scanner Avoidance"
      [] event_type = "BARCODE_SWITCHING" -> "Barcode Switching"
      [] event_type = "WEIGHT_DISCREPANCY" -> "Weight Discrepancies"
      [] event_type = "SYSTEM_CRASH" -> "Unexpected Systems Crash"
      [] event_type = "LONG_QUEUE" -> "Long Queue Length"
      [] event_type = "LONG_WAIT" -> "Long Wait Time"
      [] event_type = "INVENTORY_DISCREPANCY" -> "Inventory Discrepancy"
      [] event_type = "STAFFING_NEEDS" -> "Staffing Needs"
      [] event_type = "CHECKOUT_ACTION" -> "Checkout Station Action"
      [] event_type = "HIGH_RISK_CUSTOMER" -> "High-Risk Customer"
      [] event_type = "STATION_PERFORMANCE_ALERT" -> "Station Performance Alert"
      [] OTHER -> "Unknown Event"

\* rfid_index[key]['data']['sku'] raises KeyError when the RFID record that
\* shares a POS record's key with a vision record has no SKU
track_successful_operations_raises(pos_events_, rfid_events_, product_recognition_) ==
    \E i \in 1..Len(pos_events_) :
        LET r == last_at(rfid_events_, pos_events_[i].timestamp, pos_events_[i].station_id)
            v == last_at(product_recognition_, pos_events_[i].timestamp,
                         pos_events_[i].station_id)
        IN  r # 0 /\ v # 0 /\ ~Has(rfid_events_[r].data, "sku")

\* the rule that raises aborts the pass: process_all_events has no handler
process_all_events_raises(pos_events_, rfid_events_, product_recognition_, queue_events, inventory_snapshots_, products_, th) ==
    \/ scanner_avoidance_raises(rfid_events_, pos_events_)
    \/ weight_discrepancies_raises(pos_events_, products_)
    \/ system_crashes_raises(pos_events_, product_recognition_, rfid_events_, queue_events)
    \/ station_pressure_raises(queue_events, th.queue_length_alert,
                               th.station_alert_wait_threshold,
                               th.station_alert_occurrences,
                               th.station_alert_window_minutes)
    \/ Len(inventory_snapshots_) > 0 /\ inventory_discrepancies_raises(rfid_events_)
    \/ track_successful_operations_raises(pos_events_, rfid_events_, product_recognition_)

\* EventDetectionEngine.process_all_events: all_detected, when no rule raises
process_all_events(pos_events_, rfid_events_, product_recognition_, queue_events, inventory_snapshots_, products_, th, now) ==
    LET scanner_avoidance ==
            detect_scanner_avoidance(rfid_events_, pos_events_,
                                     th.rfid_pos_time_window, products_)
        barcode_switching ==
            detect_barcode_switching(product_recognition_, pos_events_,
                                     th.product_recognition_confidence, products_)
        weight_discrepancies ==
            detect_weight_discrepancies(pos_events_, products_,
                                        th.weight_tolerance_percent)
        long_queues == detect_long_queue(queue_events, th.queue_length_alert)
        long_waits == detect_long_wait_time(queue_events, th.wait_time_alert)
        system_crashes ==
            detect_system_crashes(pos_events_, product_recognition_, rfid_events_,
                                  queue_events)
        staffing_needs ==
            recommend_staffing(queue_events, th.queue_length_alert, th.wait_time_alert)
        station_pressure ==
            detect_station_pressure(queue_events, th.queue_length_alert,
                                    th.station_alert_wait_threshold,
                                    th.station_alert_occurrences,
                                    th.station_alert_window_minutes)
        fraud_events == scanner_avoidance \o barcode_switching \o weight_discrepancies
        high_risk_customers ==
            detect_high_risk_customers(fraud_events, th.high_risk_customer_events,
                                       th.high_risk_customer_score)
        inventory_discrepancies ==
            IF Len(inventory_snapshots_) > 0
            THEN detect_inventory_discrepancies(inventory_snapshots_[1].data,
                                                rfid_events_, pos_events_,
                                                th.inventory_discrepancy_threshold, now)
            ELSE <<>>
        successful ==
            track_successful_operations(pos_events_, rfid_events_, product_recognition_)
    IN  scanner_avoidance \o barcode_switching \o weight_discrepancies
            \o long_queues \o long_waits \o system_crashes \o staffing_needs
            \o station_pressure \o high_risk_customers \o inventory_discrepancies
            \o successful

\* keys whose value is a number or None, kept as NoneNum / Some(x)
NumericOptionKeys == {"estimated_loss", "price_gap", "predicted_price", "scanned_price"}

\* keys whose value is a string or None
StringKeys == {"station_id", "customer_id", "product_sku", "actual_sku",
               "scanned_sku", "sku", "SKU", "staff_type", "Staff_type"}

\* event.get(key) as a JSON value: <<>> is null, <<v>> the value v
JsonGet(event, key) ==
    IF ~Has(event, key) THEN <<>>
    ELSE IF key \in NumericOptionKeys THEN event[key]
    ELSE IF key \in StringKeys /\ event[key] = None THEN <<>>
    ELSE <<event[key]>>

\* the fields format_event_output puts into event_data for the event's type,
\* before the None values are removed
event_data_fields(event) ==
    LET G(key) == JsonGet(event, key)
        name == [event_name |-> <<EVENT_TYPES_name(event.type)>>]
        type == event.type
    IN  CASE type = "SUCCESS" ->
                name @@ [station_id |-> G("station_id"), customer_id |-> G("customer_id"),
                         product_sku |-> G("product_sku"),
                         service_score |-> IF Has(event, "service_score")
                                           THEN G("service_score") ELSE <<95>>]
          [] type = "SCANNER_AVOIDANCE" ->
                name @@ [station_id |-> G("station_id"), product_sku |-> G("product_sku"),
                         estimated_loss |-> G("estimated_loss")]
          [] type = "BARCODE_SWITCHING" ->
                name @@ [station_id |-> G("station_id"), customer_id |-> G("customer_id"),
                         actual_sku |-> G("actual_sku"), scanned_sku |-> G("scanned_sku"),
                         confidence |-> G("confidence"), price_gap |-> G("price_gap"),
                         predicted_price |-> G("predicted_price"),
                         scanned_price |-> G("scanned_price")]
          [] type = "WEIGHT_DISCREPANCY" ->
                name @@ [station_id |-> G("station_id"), customer_id |-> G("customer_id"),
                         product_sku |-> G("product_sku"),
                         expected_weight |-> G("expected_weight"),
                         actual_weight |-> G("actual_weight"),
                         difference_percent |-> G("difference_percent"),
                         estimated_loss |-> G("estimated_loss")]
          [] type = "SYSTEM_CRASH" ->
                name @@ [station_id |-> G("station_id"),
                         duration_seconds |-> G("duration_seconds")]
          [] type = "LONG_QUEUE" ->
                name @@ [station_id |-> G("station_id"),
                         num_of_customers |-> G("num_of_customers")]
          [] type = "LONG_WAIT" ->
                name @@ [station_id |-> G("station_id"),
                         \* int() of the rounded dwell time kept in tenths
                         wait_time_seconds |-> <<event.wait_time_seconds \div 10>>]
          [] type = "INVENTORY_DISCREPANCY" ->
                name @@ [SKU |-> G("sku"),
                         Expected_Inventory |-> G("expected_inventory"),
                         Actual_Inventory |-> G("actual_inventory"),
                         Difference_Percent |->
                             <<RoundHalfEven(event.difference_percent[1] * 100,
                                             event.difference_percent[2])>>]
          [] type = "STAFFING_NEEDS" ->
                name @@ [station_id |-> G("station_id"), Staff_type |-> G("staff_type")]
          [] type = "HIGH_RISK_CUSTOMER" ->
                name @@ [customer_id |-> G("customer_id"),
                         fraud_event_count |-> G("fraud_event_count"),
                         recent_events |-> G("recent_events"),
                         station_id |-> G("station_id"),
                         stations_involved |-> G("stations_involved"),
                         station_summary |-> G("station_summary")]
          [] type = "STATION_PERFORMANCE_ALERT" ->
                name @@ [station_id |-> G("station_id"),
                         issues_detected |-> G("issues_detected"),
                         max_queue |-> G("max_queue"),
                         max_wait_seconds |-> G("max_wait_seconds"),
                         average_queue |-> G("average_queue"),
                         average_wait_seconds |-> G("average_wait_seconds"),
                         recent_samples |-> G("recent_samples"),
                         window_minutes |-> G("window_minutes")]
          [] OTHER -> name

\* clean_none that keeps every field
Mutant_clean_none(event_data) == event_data

\* "Clean up None values": {k: v for k, v in event_data.items() if v is not None}
clean_none(event_data) ==
    [k \in {k \in DOMAIN event_data : event_data[k] # <<>>} |-> event_data[k]]

\* EventDetectionEngine.format_event_output (Team01)
format_event_output(event) ==
    LET cleaned == clean_none(event_data_fields(event))
        with_risk == IF Has(event, "risk_score")
                     THEN ("risk_score" :> <<event.risk_score>>) @@ cleaned
                     ELSE cleaned
        event_data == IF Has(event, "severity") /\ event.severity \notin {None, ""}
                      THEN ("severity" :> <<event.severity>>) @@ with_risk
                      ELSE with_risk
    IN  [timestamp |-> event.timestamp,
         event_id |-> EVENT_TYPES_id(event.type),
         event_data |-> event_data]

\* save_events writing the detections in the order the rules appended them
Mutant_save_events(detected) ==
    [i \in 1..Len(detected) |-> format_event_output(detected[i])]

\* the lines save_events writes: the detections sorted by timestamp, formatted
save_events(detected) ==
    LET sorted_events == SortByTimestamp(detected)
    IN  [i \in 1..Len(sorted_events) |-> format_event_output(sorted_events[i])]

-----------------------------------------------------------------------------
(* Bounds and input domains                                                *)

MaxScore == 100        \* scores handed to the classifiers: 0..MaxScore

MaxWindow == 2         \* rfid_pos_time_window: 0..MaxWindow seconds
MaxRfidLen == 2        \* RFID records handed to the scanner-avoidance rule
MaxScanPosLen == 1     \* POS records handed to the scanner-avoidance rule

\* sequences over D of length at most n
SeqsUpTo(D, n) == UNION {[1..k -> D] : k \in 0..n}

\* config.THRESHOLDS (Team01); product_recognition_confidence in hundredths
DefaultThresholds ==
    [weight_tolerance_percent |-> 15,
     product_recognition_confidence |-> 75,
     queue_length_alert |-> 5,
     wait_time_alert |-> 300,
     inventory_discrepancy_threshold |-> 10,
     rfid_pos_time_window |-> 10,
     station_alert_wait_threshold |-> 300,
     station_alert_occurrences |-> 3,
     station_alert_window_minutes |-> 15,
     high_risk_customer_events |-> 2,
     high_risk_customer_score |-> 80]

PosRecord(t, station, sku, weight_g, customer_id, status) ==
    [timestamp |-> t, station_id |-> station, status |-> status,
     data |-> [sku |-> sku, weight_g |-> weight_g, customer_id |-> customer_id]]

RfidRecord(t, station, data, status) ==
    [timestamp |-> t, station_id |-> station, status |-> status, data |-> data]

VisionRecord(t, station, predicted_product, accuracy, status) ==
    [timestamp |-> t, station_id |-> station, status |-> status,
     data |-> [predicted_product |-> predicted_product, accuracy |-> accuracy]]

QueueRecord(t, station, customer_count, average_dwell_time, status) ==
    [timestamp |-> t, station_id |-> station, status |-> status,
     data |-> [customer_count |-> customer_count,
               average_dwell_time |-> average_dwell_time]]

\* product catalogs: empty, or SKU A alone with the given entry
CatalogOfA(entry) == [sku \in {"A"} |-> entry]

EmptyInputs ==
    /\ pos_events = <<>>
    /\ rfid_events = <<>>
    /\ product_recognition = <<>>
    /\ queue_monitoring = <<>>
    /\ inventory_snapshots = <<>>
    /\ products = <<>>
    /\ thresholds = <<>>

Idle ==
    /\ clock = 0
    /\ detected_events = <<>>
    /\ prev_detected = <<>>
    /\ runs = 0
    /\ saved = <<>>
    /\ op = "init"
    /\ result = <<>>

-----------------------------------------------------------------------------
(* Specification of the severity classifiers                               *)

InitSeverity ==
    /\ EmptyInputs
    /\ Idle
    /\ scores \in (0..MaxScore) \X (0..MaxScore)

ClassifyFraud ==
    /\ op = "init"
    /\ op' = "Fraud_classify_severity"
    /\ result' = <<Fraud_classify_severity(scores[1], 1), Fraud_classify_severity(scores[2], 1)>>
    /\ UNCHANGED <<inputs, clock, detected_events, prev_detected, runs, saved, scores>>

ClassifyOps ==
    /\ op = "init"
    /\ op' = "Ops_classify_severity"
    /\ result' = <<Ops_classify_severity(scores[1], 1), Ops_classify_severity(scores[2], 1)>>
    /\ UNCHANGED <<inputs, clock, detected_events, prev_detected, runs, saved, scores>>

ClassifyInventory ==
    /\ op = "init"
    /\ op' = "Inventory_classify_severity"
    /\ result' = <<Inventory_classify_severity(scores[1], 1), Inventory_classify_severity(scores[2], 1)>>
    /\ UNCHANGED <<inputs, clock, detected_events, prev_detected, runs, saved, scores>>

ClassifyAgentX ==
    /\ op = "init"
    /\ op' = "AgentX_classify_severity"
    /\ result' = <<AgentX_classify_severity(scores[1], 1), AgentX_classify_severity(scores[2], 1)>>
    /\ UNCHANGED <<inputs, clock, detected_events, prev_detected, runs, saved, scores>>

NextSeverity == ClassifyFraud \/ ClassifyOps \/ ClassifyInventory \/ ClassifyAgentX

SpecSeverity == InitSeverity /\ [][NextSeverity]_vars

ClassifierOps == {"Fraud_classify_severity", "Ops_classify_severity",
                  "Inventory_classify_severity", "AgentX_classify_severity"}

\* ordinal of a severity tier; AgentX adds CRITICAL above HIGH
SeverityRank(sev) ==
    CASE sev = "LOW" -> 0
      [] sev = "MEDIUM" -> 1
      [] sev = "HIGH" -> 2
      [] sev = "CRITICAL" -> 3

\* C2: every severity classifier is monotonic: for scores s1 < s2 the tier of
\* s1 is not above the tier of s2 (LOW < MEDIUM < HIGH, and CRITICAL on top in
\* the AgentX classifier).
C2_MonotonicSeverity ==
    (op \in ClassifierOps /\ scores[1] < scores[2])
        => SeverityRank(result[1]) <= SeverityRank(result[2])

C2_Witness ==
    /\ op = "Fraud_classify_severity"
    /\ scores[1] < scores[2]
    /\ result = <<"MEDIUM", "HIGH">>

-----------------------------------------------------------------------------
(* Specification of the scanner-avoidance rule                             *)

\* the RFID records are read at ScanTime; the POS records lie up to
\* MaxWindow + 1 seconds before and after it
ScanTime == MaxWindow + 1

ScanRfidData ==
    {[sku |-> "A", location |-> "IN_SCAN_AREA"],
     [sku |-> "B", location |-> "IN_SCAN_AREA"],
     [sku |-> "A", location |-> "SHELF"],
     [sku |-> None, location |-> "IN_SCAN_AREA"],
     [location |-> "IN_SCAN_AREA"]}

ScanRfidRecords == {RfidRecord(ScanTime, "S1", d, "Active") : d \in ScanRfidData}

ScanPosRecords ==
    {PosRecord(t, "S1", "A", 150, "C1", "Active") : t \in 0..(2 * ScanTime)}
        \cup {PosRecord(ScanTime, "S2", "A", 150, "C1", "Active"),
              PosRecord(ScanTime, "S1", "B", 150, "C1", "Active")}

\* no catalog, and SKU A priced at 280 or at 149 (80 + 149/30 = 84.97)
ScanCatalogs ==
    {<<>>, CatalogOfA([weight |-> 150, price |-> 280]),
     CatalogOfA([weight |-> 150, price |-> 149])}

InitScanner ==
    /\ Idle
    /\ scores = <<0, 0>>
    /\ rfid_events \in SeqsUpTo(ScanRfidRecords, MaxRfidLen)
    /\ pos_events \in SeqsUpTo(ScanPosRecords, MaxScanPosLen)
    /\ product_recognition = <<>>
    /\ queue_monitoring = <<>>
    /\ inventory_snapshots = <<>>
    /\ products \in ScanCatalogs
    /\ thresholds \in {[DefaultThresholds EXCEPT !.rfid_pos_time_window = w] :
                          w \in 0..MaxWindow}

RunScannerAvoidance ==
    /\ op = "init"
    /\ IF scanner_avoidance_raises(rfid_events, pos_events)
       THEN /\ op' = "ValueError"
            /\ result' = <<>>
       ELSE /\ op' = "detect_scanner_avoidance"
            /\ result' = detect_scanner_avoidance(rfid_events, pos_events,
                                                  thresholds.rfid_pos_time_window,
                                                  products)
    /\ UNCHANGED <<inputs, clock, detected_events, prev_detected, runs, saved, scores>>

NextScanner == RunScannerAvoidance

SpecScanner == InitScanner /\ [][NextScanner]_vars

\* the RFID record has a SKU, is in the scan area, and no POS record of the
\* same station and SKU lies within W seconds of it
Unscanned(rfid) ==
    /\ Has(rfid.data, "sku")
    /\ rfid.data.sku # None
    /\ rfid.data.location = "IN_SCAN_AREA"
    /\ ~\E i \in 1..Len(pos_events) :
           /\ pos_events[i].station_id = rfid.station_id
           /\ pos_events[i].data.sku = rfid.data.sku
           /\ Abs(pos_events[i].timestamp - rfid.timestamp)
                  <= thresholds.rfid_pos_time_window

UnscannedIndices == {i \in 1..Len(rfid_events) : Unscanned(rfid_events[i])}

\* C3: detect_scanner_avoidance returns exactly one SCANNER_AVOIDANCE per RFID
\* record that has a SKU, is IN_SCAN_AREA and has no POS record of the same
\* station and SKU within [T-W, T+W] (both ends inclusive), in the order of
\* the RFID records, and nothing for any other RFID record; each detection
\* carries the record's timestamp, station and SKU and has risk_score >= 75.
C3_ScannerAvoidanceExact ==
    op = "detect_scanner_avoidance" =>
        /\ Len(result) = Cardinality(UnscannedIndices)
        /\ \A k \in 1..Len(result) :
               LET i == CHOOSE i \in UnscannedIndices :
                            Cardinality({j \in UnscannedIndices : j < i}) = k - 1
               IN  /\ result[k].type = "SCANNER_AVOIDANCE"
                   /\ result[k].timestamp = rfid_events[i].timestamp
                   /\ result[k].station_id = rfid_events[i].station_id
                   /\ result[k].product_sku = rfid_events[i].data.sku
                   /\ result[k].risk_score >= 75 * 10

\* a POS record exactly W > 0 seconds after the RFID record matches it, and a
\* second RFID record, of another SKU, is flagged
C3_Witness ==
    /\ op = "detect_scanner_avoidance"
    /\ thresholds.rfid_pos_time_window > 0
    /\ Len(rfid_events) = 2 /\ Len(pos_events) = 1
    /\ rfid_events[1].data = [sku |-> "A", location |-> "IN_SCAN_AREA"]
    /\ rfid_events[2].data = [sku |-> "B", location |-> "IN_SCAN_AREA"]
    /\ pos_events[1].station_id = "S1" /\ pos_events[1].data.sku = "A"
    /\ pos_events[1].timestamp = ScanTime + thresholds.rfid_pos_time_window
    /\ Len(result) = 1
    /\ result[1].product_sku = "B"

-----------------------------------------------------------------------------
(* Specification of the barcode-switching rule                             *)

MaxVisionLen == 2      \* vision records handed to the barcode-switching rule
MaxBarcodePosLen == 2  \* POS records handed to the barcode-switching rule

\* confidence thresholds in hundredths: the defaults of the two trees
ConfidenceThresholds == {60, 75}

BarcodeVisionRecords ==
    {VisionRecord(1, "S1", p, a, "Active") : p \in {"A", "B"}, a \in {74, 75, 95}}

BarcodePosRecords ==
    {PosRecord(1, st, sku, 150, "C1", "Active") : st \in {"S1", "S2"}, sku \in {"A", "B"}}
        \cup {PosRecord(2, "S1", "B", 150, "C1", "Active")}

BarcodeCatalogs == {<<>>, CatalogOfA([weight |-> 150, price |-> 280])}

InitBarcode ==
    /\ Idle
    /\ scores = <<0, 0>>
    /\ rfid_events = <<>>
    /\ pos_events \in SeqsUpTo(BarcodePosRecords, MaxBarcodePosLen)
    /\ product_recognition \in SeqsUpTo(BarcodeVisionRecords, MaxVisionLen)
    /\ queue_monitoring = <<>>
    /\ inventory_snapshots = <<>>
    /\ products \in BarcodeCatalogs
    /\ thresholds \in {[DefaultThresholds EXCEPT !.product_recognition_confidence = c] :
                          c \in ConfidenceThresholds}

RunBarcodeSwitching ==
    /\ op = "init"
    /\ op' = "detect_barcode_switching"
    /\ result' = detect_barcode_switching(product_recognition, pos_events,
                                          thresholds.product_recognition_confidence,
                                          products)
    /\ UNCHANGED <<inputs, clock, detected_events, prev_detected, runs, saved, scores>>

NextBarcode == RunBarcodeSwitching

SpecBarcode == InitBarcode /\ [][NextBarcode]_vars

\* the POS records at the vision record's (timestamp, station), in input order
PosAtKey(recognition) ==
    SelectSeq(pos_events, LAMBDA p : /\ p.timestamp = recognition.timestamp
                                     /\ p.station_id = recognition.station_id)

\* the vision record is at or above the threshold, a POS record exists at
\* its key, and the SKU scanned there (the key's latest POS record) differs
\* from the predicted SKU
Switched(recognition) ==
    /\ recognition.data.accuracy >= thresholds.product_recognition_confidence
    /\ Len(PosAtKey(recognition)) > 0
    /\ PosAtKey(recognition)[Len(PosAtKey(recognition))].data.sku
           # recognition.data.predicted_product

SwitchedIndices == {i \in 1..Len(product_recognition) : Switched(product_recognition[i])}

\* C4: detect_barcode_switching returns exactly one BARCODE_SWITCHING per
\* vision record with accuracy >= threshold (equality qualifies), a POS record
\* at the identical (timestamp, station) and a predicted SKU different from
\* the SKU scanned there, with actual_sku = predicted SKU and scanned_sku =
\* POS SKU; no detection for a record below the threshold, without POS record
\* at its key, or with predicted SKU equal to the scanned SKU.
C4_BarcodeSwitchingExact ==
    op = "detect_barcode_switching" =>
        /\ Len(result) = Cardinality(SwitchedIndices)
        /\ \A k \in 1..Len(result) :
               LET i == CHOOSE i \in SwitchedIndices :
                            Cardinality({j \in SwitchedIndices : j < i}) = k - 1
                   at == PosAtKey(product_recognition[i])
               IN  /\ result[k].type = "BARCODE_SWITCHING"
                   /\ result[k].timestamp = product_recognition[i].timestamp
                   /\ result[k].station_id = product_recognition[i].station_id
                   /\ result[k].actual_sku = product_recognition[i].data.predicted_product
                   /\ result[k].scanned_sku = at[Len(at)].data.sku

\* a vision record exactly at the threshold is flagged against the POS record
\* at its key, a second one below the threshold is not
C4_Witness ==
    /\ op = "detect_barcode_switching"
    /\ Len(product_recognition) = 2
    /\ product_recognition[1].data.accuracy = thresholds.product_recognition_confidence
    /\ product_recognition[2].data.accuracy < thresholds.product_recognition_confidence
    /\ Len(result) = 1
    /\ result[1].actual_sku = "A"
    /\ result[1].scanned_sku = "B"

-----------------------------------------------------------------------------
(* Specification of the weight-discrepancy rule                            *)

MaxWeightPosLen == 2   \* POS records handed to the weight-discrepancy rule

\* scanned weights in grams: at, just above and far above 10 % and 15 % of
\* an expected 100 g, and the double of an expected 150 g
ScannedWeights == {85, 110, 115, 116, 300}

WeightPosRecords ==
    {PosRecord(1, "S1", sku, w, "C1", "Active") : sku \in {"A", "B"}, w \in ScannedWeights}

WeightCatalogs ==
    {<<>>}
        \cup {CatalogOfA([weight |-> w]) : w \in {0, 100, 150}}
        \cup {CatalogOfA([weight |-> w, price |-> p]) : w \in {0, 100, 150}, p \in {0, 280}}

WeightTolerances == {10, 15}

InitWeight ==
    /\ Idle
    /\ scores = <<0, 0>>
    /\ rfid_events = <<>>
    /\ pos_events \in SeqsUpTo(WeightPosRecords, MaxWeightPosLen)
    /\ product_recognition = <<>>
    /\ queue_monitoring = <<>>
    /\ inventory_snapshots = <<>>
    /\ products \in WeightCatalogs
    /\ thresholds \in {[DefaultThresholds EXCEPT !.weight_tolerance_percent = t] :
                          t \in WeightTolerances}

RunWeightDiscrepancies ==
    /\ op = "init"
    /\ IF weight_discrepancies_raises(pos_events, products)
       THEN /\ op' = "ZeroDivisionError"
            /\ result' = <<>>
       ELSE /\ op' = "detect_weight_discrepancies"
            /\ result' = detect_weight_discrepancies(pos_events, products,
                                                     thresholds.weight_tolerance_percent)
    /\ UNCHANGED <<inputs, clock, detected_events, prev_detected, runs, saved, scores>>

NextWeight == RunWeightDiscrepancies

SpecWeight == InitWeight /\ [][NextWeight]_vars

\* the POS record's SKU is in the catalog and the scanned weight is off the
\* expected weight by strictly more than the tolerance percent
OffWeight(pos) ==
    /\ pos.data.sku \in DOMAIN products
    /\ Abs(pos.data.weight_g - products[pos.data.sku].weight) * 100
           > thresholds.weight_tolerance_percent * products[pos.data.sku].weight

OffWeightIndices == {i \in 1..Len(pos_events) : OffWeight(pos_events[i])}

\* C5: detect_weight_discrepancies returns exactly one WEIGHT_DISCREPANCY per
\* POS record whose SKU is in the catalog and whose weight differs from the
\* expected weight by strictly more than the tolerance percent, none
\* otherwise; difference_percent is that percentage to two decimals.
C5_WeightDiscrepancyExact ==
    op = "detect_weight_discrepancies" =>
        /\ Len(result) = Cardinality(OffWeightIndices)
        /\ \A k \in 1..Len(result) :
               LET i == CHOOSE i \in OffWeightIndices :
                            Cardinality({j \in OffWeightIndices : j < i}) = k - 1
                   pos == pos_events[i]
                   expected == products[pos.data.sku].weight
               IN  /\ result[k].type = "WEIGHT_DISCREPANCY"
                   /\ result[k].product_sku = pos.data.sku
                   /\ result[k].actual_weight = pos.data.weight_g
                   \* within half a hundredth of |actual - expected| / expected * 100
                   /\ 2 * Abs(result[k].difference_percent * expected
                              - Abs(pos.data.weight_g - expected) * 10000) <= expected

\* 300 g scanned against 150 g expected is flagged with 100.00 percent; a
\* second record, exactly at the tolerance, is not
C5_Witness ==
    /\ op = "detect_weight_discrepancies"
    /\ Len(pos_events) = 2
    /\ pos_events[1].data.weight_g = 300
    /\ "A" \in DOMAIN products /\ products["A"].weight = 150
    /\ Len(result) = 1
    /\ result[1].difference_percent = 10000

\* a record exactly at the tolerance yields nothing
C5_WitnessAtTolerance ==
    /\ op = "detect_weight_discrepancies"
    /\ Len(pos_events) = 1
    /\ pos_events[1].data.sku = "A"
    /\ "A" \in DOMAIN products /\ products["A"].weight = 100
    /\ Abs(pos_events[1].data.weight_g - 100) = thresholds.weight_tolerance_percent
    /\ result = <<>>

-----------------------------------------------------------------------------
(* Specification of the station-pressure aggregator                        *)

MaxQueueLen == 3        \* queue samples handed to the aggregator
MaxOccurrences == 2     \* occurrences_threshold: 1..MaxOccurrences
MaxWindowMinutes == 1   \* window_minutes: 0..MaxWindowMinutes

\* sample times in seconds: one minute apart, and one second more
PressureTimes == {0, 60, 61}

\* (customer_count, average_dwell_time): calm, long queue, long wait
PressureLoads == {<<0, 300>>, <<6, 300>>, <<0, 301>>}

PressureQueueRecords ==
    {QueueRecord(t, "S1", l[1], l[2], "Active") : t \in PressureTimes, l \in PressureLoads}
        \cup {QueueRecord(0, "S2", 6, 301, "Active")}

QueueThresholds == {5, 20}

InitPressure ==
    /\ Idle
    /\ scores = <<0, 0>>
    /\ rfid_events = <<>>
    /\ pos_events = <<>>
    /\ product_recognition = <<>>
    /\ queue_monitoring \in SeqsUpTo(PressureQueueRecords, MaxQueueLen)
    /\ inventory_snapshots = <<>>
    /\ products = <<>>
    /\ thresholds \in {[DefaultThresholds EXCEPT !.queue_length_alert = q,
                                                 !.station_alert_occurrences = o,
                                                 !.station_alert_window_minutes = w] :
                          q \in QueueThresholds, o \in 1..MaxOccurrences,
                          w \in 0..MaxWindowMinutes}

RunStationPressure ==
    /\ op = "init"
    /\ IF station_pressure_raises(queue_monitoring, thresholds.queue_length_alert,
                                  thresholds.station_alert_wait_threshold,
                                  thresholds.station_alert_occurrences,
                                  thresholds.station_alert_window_minutes)
       THEN /\ op' = "ValueError"
            /\ result' = <<>>
       ELSE /\ op' = "detect_station_pressure"
            /\ result' = detect_station_pressure(queue_monitoring,
                                                 thresholds.queue_length_alert,
                                                 thresholds.station_alert_wait_threshold,
                                                 thresholds.station_alert_occurrences,
                                                 thresholds.station_alert_window_minutes)
    /\ UNCHANGED <<inputs, clock, detected_events, prev_detected, runs, saved, scores>>

NextPressure == RunStationPressure

SpecPressure == InitPressure /\ [][NextPressure]_vars

PressureStations == {queue_monitoring[i].station_id : i \in 1..Len(queue_monitoring)}

\* the latest sample time of a station
LatestSample(station) ==
    MaxSeq([k \in 1..Len(SelectSeq(queue_monitoring, LAMBDA e : e.station_id = station)) |->
               SelectSeq(queue_monitoring, LAMBDA e : e.station_id = station)[k].timestamp])

\* the sample breaches a threshold
Breaches(sample) ==
    \/ sample.data.customer_count > thresholds.queue_length_alert
    \/ sample.data.average_dwell_time > thresholds.station_alert_wait_threshold

\* the sample lies within window_minutes (inclusive) before the station's
\* latest sample
InWindow(sample) ==
    LatestSample(sample.station_id) - sample.timestamp
        <= thresholds.station_alert_window_minutes * 60

\* positions of the station's breaching samples inside the window
InWindowBreaching(station) ==
    {i \in 1..Len(queue_monitoring) : /\ queue_monitoring[i].station_id = station
                                      /\ Breaches(queue_monitoring[i])
                                      /\ InWindow(queue_monitoring[i])}

\* positions of the samples the code counts: a window of zero minutes
\* switches the window off
Counted(station) ==
    {i \in 1..Len(queue_monitoring) : /\ queue_monitoring[i].station_id = station
                                      /\ Breaches(queue_monitoring[i])
                                      /\ \/ thresholds.station_alert_window_minutes = 0
                                         \/ InWindow(queue_monitoring[i])}

AlertsOf(station) == {k \in 1..Len(result) : result[k].station_id = station}

SumOver(S, f) ==
    LET sum[T \in SUBSET S] ==
            IF T = {} THEN 0 ELSE LET x == CHOOSE x \in T : TRUE IN f[x] + sum[T \ {x}]
    IN  sum[S]

\* one alert for the station exactly when the samples at the positions S
\* reach the occurrence threshold, with max and mean taken over S
AlertOver(station, S) ==
    LET queue == [i \in S |-> queue_monitoring[i].data.customer_count]
        wait == [i \in S |-> queue_monitoring[i].data.average_dwell_time]
    IN  IF Cardinality(S) >= thresholds.station_alert_occurrences
        THEN /\ Cardinality(AlertsOf(station)) = 1
             /\ \A k \in AlertsOf(station) :
                    /\ result[k].type = "STATION_PERFORMANCE_ALERT"
                    /\ result[k].issues_detected = Cardinality(S)
                    /\ \A i \in S : /\ queue[i] <= result[k].max_queue
                                    /\ wait[i] <= result[k].max_wait_seconds
                    /\ \E i \in S : queue[i] = result[k].max_queue
                    /\ \E i \in S : wait[i] = result[k].max_wait_seconds
                    /\ result[k].average_queue
                           = RoundHalfEven(SumOver(S, queue) * 10, Cardinality(S))
                    /\ result[k].average_wait_seconds
                           = RoundHalfEven(SumOver(S, wait) * 10, Cardinality(S))
        ELSE AlertsOf(station) = {}

C6_WitnessAlert ==
    /\ op = "detect_station_pressure"
    /\ thresholds.station_alert_window_minutes = 1
    /\ thresholds.station_alert_occurrences = 2
    /\ Cardinality(Counted("S1")) = 2
    /\ Len(result) = 1
    /\ result[1].station_id = "S1"
    /\ result[1].max_queue = 6
    /\ result[1].max_wait_seconds = 301
    /\ result[1].average_queue = 30

\* C1: every event of a rule or aggregator has 0 <= risk_score <= 100 (here
\* in tenths), for all inputs and all threshold values.
C1_RiskScoreBounded ==
    op = "detect_station_pressure" =>
        \A k \in 1..Len(result) : /\ 0 <= result[k].risk_score
                                  /\ result[k].risk_score <= 100 * 10

-----------------------------------------------------------------------------
(* Specification of the inventory reconciliation of both trees             *)

MaxStock == 3           \* snapshot count of SKU A: 0..MaxStock
MaxInvPosLen == 2       \* POS records handed to the reconciliation
MaxInvRfidLen == 2      \* RFID records handed to the reconciliation

\* the first record of inventory_snapshots.jsonl: SKU A alone, or A and B
InventorySnapshots ==
    {[timestamp |-> 0, data |-> [sku \in {"A"} |-> a]] : a \in 0..MaxStock}
        \cup {[timestamp |-> 0, data |-> [sku \in {"A", "B"} |-> IF sku = "A" THEN 2 ELSE 1]]}

InventoryPosRecords == {PosRecord(1, "S1", sku, 150, "C1", "Active") : sku \in {"A", "B"}}

\* RFID data: tallied locations, another location, and no location at all
InventoryRfidData ==
    {[sku |-> "A", location |-> "IN_SCAN_AREA"], [sku |-> "A", location |-> "SHELF"],
     [sku |-> "B", location |-> "IN_SCAN_AREA"], [sku |-> "A", location |-> "EXIT"],
     [sku |-> "A"]}

InventoryRfidRecords == {RfidRecord(2, "S1", data, "Active") : data \in InventoryRfidData}

\* percent thresholds: none, the two trees' default, and a half
InventoryThresholds == {0, 10, 50}

InitInventory ==
    /\ Idle
    /\ scores = <<0, 0>>
    /\ rfid_events \in SeqsUpTo(InventoryRfidRecords, MaxInvRfidLen)
    /\ pos_events \in SeqsUpTo(InventoryPosRecords, MaxInvPosLen)
    /\ product_recognition = <<>>
    /\ queue_monitoring = <<>>
    /\ inventory_snapshots \in {<<s>> : s \in InventorySnapshots}
    /\ products = <<>>
    /\ thresholds \in {[DefaultThresholds EXCEPT !.inventory_discrepancy_threshold = p] :
                          p \in InventoryThresholds}

RunInventoryDiscrepancies ==
    /\ op = "init"
    /\ IF inventory_discrepancies_raises(rfid_events)
       THEN /\ op' = "KeyError"
            /\ result' = <<>>
       ELSE /\ op' = "detect_inventory_discrepancies"
            /\ result' = detect_inventory_discrepancies(
                             inventory_snapshots[1].data, rfid_events, pos_events,
                             thresholds.inventory_discrepancy_threshold, clock)
    /\ UNCHANGED <<inputs, clock, detected_events, prev_detected, runs, saved, scores>>

RunAgentXInventoryDiscrepancies ==
    /\ op = "init"
    /\ op' = "AgentX_detect_inventory_discrepancies"
    /\ result' = AgentX_detect_inventory_discrepancies(
                     inventory_snapshots[1].data, rfid_events, pos_events,
                     thresholds.inventory_discrepancy_threshold, clock)
    /\ UNCHANGED <<inputs, clock, detected_events, prev_detected, runs, saved, scores>>

NextInventory == RunInventoryDiscrepancies \/ RunAgentXInventoryDiscrepancies

SpecInventory == InitInventory /\ [][NextInventory]_vars

InventoryRan == op \in {"detect_inventory_discrepancies", "AgentX_detect_inventory_discrepancies"}

\* every SKU of the snapshot or the streams
InventorySkus ==
    DOMAIN inventory_snapshots[1].data
        \cup {pos_events[i].data.sku : i \in 1..Len(pos_events)}
        \cup {rfid_events[i].data.sku : i \in 1..Len(rfid_events)}

PosSales(sku) == Cardinality({i \in 1..Len(pos_events) : pos_events[i].data.sku = sku})

\* RFID detections of the SKU with location IN_SCAN_AREA or SHELF
RfidTally(sku) ==
    Cardinality({i \in 1..Len(rfid_events) :
                    /\ rfid_events[i].data.sku = sku
                    /\ "location" \in DOMAIN rfid_events[i].data
                    /\ rfid_events[i].data.location \in {"IN_SCAN_AREA", "SHELF"}})

NoInventoryDiscrepancy == \A k \in 1..Len(result) : result[k].type # "INVENTORY_DISCREPANCY"

\* C8 as stated: if for every SKU the number of POS sales equals the number
\* of RFID detections tallied for it, no INVENTORY_DISCREPANCY is emitted,
\* for every snapshot and every percent threshold.
C8_SalesEqualTally ==
    (InventoryRan /\ \A sku \in InventorySkus : PosSales(sku) = RfidTally(sku))
        => NoInventoryDiscrepancy

\* C8 amended: if for every SKU of the snapshot the number of RFID detections
\* tallied for it equals the snapshot count minus the number of POS sales of
\* it, no INVENTORY_DISCREPANCY is emitted, for every snapshot and every
\* percent threshold that is not negative.
C8_TallyEqualsRemaining ==
    (/\ InventoryRan
     /\ \A sku \in DOMAIN inventory_snapshots[1].data :
            RfidTally(sku) = inventory_snapshots[1].data[sku] - PosSales(sku))
        => NoInventoryDiscrepancy

\* two of A in the snapshot, one sold and one seen by RFID: nothing emitted,
\* even with the threshold at zero
C8_Witness ==
    /\ InventoryRan
    /\ thresholds.inventory_discrepancy_threshold = 0
    /\ inventory_snapshots[1].data = [sku \in {"A"} |-> 2]
    /\ PosSales("A") = 1
    /\ RfidTally("A") = 1
    /\ result = <<>>

\* the tally departs from what remains: a discrepancy is emitted
C8_WitnessDiscrepancy ==
    /\ InventoryRan
    /\ PosSales("A") = 1
    /\ RfidTally("A") = 0
    /\ Len(result) = 1
    /\ result[1].type = "INVENTORY_DISCREPANCY"

-----------------------------------------------------------------------------
(* AgentX rules and EventDetectionEngine                                   *)

\* config.THRESHOLDS (AgentX); product_recognition_confidence in hundredths
AgentX_THRESHOLDS ==
    [weight_tolerance_percent |-> 15,
     product_recognition_confidence |-> 60,
     rfid_pos_time_window |-> 10,
     queue_length_alert |-> 5,
     wait_time_alert |-> 60,
     system_crash_gap |-> 30,
     inventory_discrepancy_threshold |-> 10,
     staffing_queue_threshold |-> 7,
     staffing_wait_threshold |-> 300,
     high_risk_customer_events |-> 2,
     high_risk_customer_score |-> 80]

\* products_catalog.get(sku, {}).get('price', 0)
AgentX_price(products_catalog, sku) ==
    IF sku \in DOMAIN products_catalog /\ Has(products_catalog[sku], "price")
    THEN products_catalog[sku].price
    ELSE 0

\* round(x, 2) if x else None, for a whole number x
AgentX_optional(x) == IF x # 0 THEN Some(x) ELSE NoneNum

\* FraudDetectionAlgorithms.detect_scanner_avoidance (AgentX): POS SKUs are
\* indexed by (station, timestamp) and looked up at the offsets -W..W
AgentX_detect_scanner_avoidance(rfid_events_, pos_events_, time_window, products_catalog) ==
    LET Indexed(pos) == Get(pos.data, "sku") \notin {None, ""}
        PerRfid(rfid) ==
            LET sku == Get(rfid.data, "sku")
                location == Get(rfid.data, "location")
                station == rfid.station_id
                found == \E offset \in (-time_window)..time_window :
                             \E i \in 1..Len(pos_events_) :
                                 /\ Indexed(pos_events_[i])
                                 /\ pos_events_[i].station_id = station
                                 /\ pos_events_[i].timestamp
                                        = isoformat(fromisoformat(rfid.timestamp) + offset)
                                 /\ pos_events_[i].data.sku = sku
                price == AgentX_price(products_catalog, sku)
                \* scores over the denominator 30
                risk_score == AgentX_calculate_risk_score(
                                  75 * 30, <<Min(price, 20 * 30), 5 * 30>>, 30)
            IN  IF sku \in {None, ""} \/ location # "IN_SCAN_AREA" \/ found
                THEN <<>>
                ELSE <<[timestamp |-> rfid.timestamp,
                        type |-> "SCANNER_AVOIDANCE",
                        station_id |-> station,
                        product_sku |-> sku,
                        estimated_loss |-> AgentX_optional(price),
                        risk_score |-> RoundHalfEven(risk_score * 10, 30),
                        severity |-> AgentX_classify_severity(risk_score, 30)]>>
    IN  Flatten([n_ \in 1..Len(rfid_events_) |-> PerRfid(rfid_events_[n_])])

\* FraudDetectionAlgorithms.detect_barcode_switching (AgentX)
AgentX_detect_barcode_switching(recognition_events, pos_events_, confidence_threshold, products_catalog) ==
    LET PerRecog(recog) ==
            LET confidence == recog.data.accuracy
                predicted_sku == recog.data.predicted_product
                k == pos_index(pos_events_, recog.timestamp, recog.station_id)
                pos == pos_events_[k]
                scanned_sku == pos.data.sku
                pred_price == AgentX_price(products_catalog, predicted_sku)
                scan_price == AgentX_price(products_catalog, scanned_sku)
                price_gap == Max(pred_price - scan_price, 0)
                \* scores over the denominator 20: the confidences are
                \* hundredths, so (confidence - threshold) * 25 is their
                \* difference over 4
                risk_score == AgentX_calculate_risk_score(
                                  70 * 20,
                                  <<(confidence - confidence_threshold) * 5,
                                    Min(price_gap * 4, 20 * 20)>>, 20)
            IN  IF confidence < confidence_threshold \/ k = 0
                THEN <<>>
                ELSE IF predicted_sku = scanned_sku
                THEN <<>>
                ELSE <<[timestamp |-> recog.timestamp,
                        type |-> "BARCODE_SWITCHING",
                        station_id |-> recog.station_id,
                        customer_id |-> pos.data.customer_id,
                        actual_sku |-> predicted_sku,
                        scanned_sku |-> scanned_sku,
                        confidence |-> confidence,
                        price_gap |-> AgentX_optional(price_gap),
                        predicted_price |-> AgentX_optional(pred_price),
                        scanned_price |-> AgentX_optional(scan_price),
                        risk_score |-> RoundHalfEven(risk_score * 10, 20),
                        severity |-> AgentX_classify_severity(risk_score, 20)]>>
    IN  Flatten([n_ \in 1..Len(recognition_events) |-> PerRecog(recognition_events[n_])])

\* FraudDetectionAlgorithms.detect_weight_discrepancies (AgentX), when it
\* returns: a catalog weight of zero raises ZeroDivisionError
AgentX_detect_weight_discrepancies(pos_events_, products_catalog, tolerance_percent) ==
    LET PerPos(pos) ==
            LET sku == pos.data.sku
                actual_weight == pos.data.weight_g
                expected_weight == products_catalog[sku].weight
                diff_num == Abs(actual_weight - expected_weight) * 100
                price == AgentX_price(products_catalog, sku)
                \* scores over the denominator 50 * expected_weight
                den == 50 * expected_weight
                risk_score == AgentX_calculate_risk_score(
                                  60 * den,
                                  <<Min(diff_num * 10, 30 * den),
                                    Min(price * expected_weight, 10 * den)>>, den)
            IN  IF sku \notin DOMAIN products_catalog
                THEN <<>>
                ELSE IF expected_weight = 0
                        \/ ~(diff_num > tolerance_percent * expected_weight)
                THEN <<>>
                ELSE <<[timestamp |-> pos.timestamp,
                        type |-> "WEIGHT_DISCREPANCY",
                        station_id |-> pos.station_id,
                        customer_id |-> pos.data.customer_id,
                        product_sku |-> sku,
                        expected_weight |-> expected_weight,
                        actual_weight |-> actual_weight,
                        difference_percent |-> RoundHalfEven(diff_num * 100, expected_weight),
                        estimated_loss |-> AgentX_optional(price),
                        risk_score |-> RoundHalfEven(risk_score * 10, den),
                        severity |-> AgentX_classify_severity(risk_score, den)]>>
    IN  Flatten([n_ \in 1..Len(pos_events_) |-> PerPos(pos_events_[n_])])

\* OperationalAlgorithms.detect_long_queues (AgentX)
AgentX_detect_long_queues(queue_events, threshold) ==
    LET PerQueue(queue) ==
            LET customer_count == queue.data.customer_count
                risk_score == AgentX_calculate_risk_score(
                                  50, <<Min((customer_count - threshold) * 8, 45)>>, 1)
            IN  IF customer_count > threshold
                THEN <<[timestamp |-> queue.timestamp,
                        type |-> "LONG_QUEUE",
                        station_id |-> queue.station_id,
                        num_of_customers |-> customer_count,
                        risk_score |-> risk_score * 10,
                        severity |-> AgentX_classify_severity(risk_score, 1)]>>
                ELSE <<>>
    IN  Flatten([n_ \in 1..Len(queue_events) |-> PerQueue(queue_events[n_])])

\* OperationalAlgorithms.detect_long_wait_times (AgentX)
AgentX_detect_long_wait_times(queue_events, threshold_seconds) ==
    LET PerQueue(queue) ==
            LET wait_time == queue.data.average_dwell_time
                customer_count == IF Has(queue.data, "customer_count")
                                  THEN queue.data.customer_count ELSE 0
                overage == wait_time - threshold_seconds
                \* scores over the denominator 4: overage / 60 * 15 = overage / 4
                risk_score == AgentX_calculate_risk_score(
                                  45 * 4,
                                  <<Min(overage, 35 * 4), Min(customer_count * 3, 15) * 4>>, 4)
            IN  IF wait_time > threshold_seconds
                THEN <<[timestamp |-> queue.timestamp,
                        type |-> "LONG_WAIT",
                        station_id |-> queue.station_id,
                        wait_time_seconds |-> wait_time,
                        customer_count |-> customer_count,
                        risk_score |-> RoundHalfEven(risk_score * 10, 4),
                        severity |-> AgentX_classify_severity(risk_score, 4)]>>
                ELSE <<>>
    IN  Flatten([n_ \in 1..Len(queue_events) |-> PerQueue(queue_events[n_])])

\* DataLoader.merge_all_events (AgentX): the records of the five files, each
\* tagged with its _source, sorted by timestamp
AgentX_merge_all_events(pos_events_, rfid_events_, recognition_events, queue_events, inventory_events) ==
    LET Tagged(stream, source) ==
            [i \in 1..Len(stream) |->
                [timestamp |-> stream[i].timestamp, event |-> stream[i], source |-> source]]
    IN  SortByTimestamp(Tagged(pos_events_, "pos") \o Tagged(rfid_events_, "rfid")
                        \o Tagged(recognition_events, "recognition")
                        \o Tagged(queue_events, "queue")
                        \o Tagged(inventory_events, "inventory"))

\* OperationalAlgorithms.detect_system_crashes (AgentX): one event per
\* (station, source) with a faulty record, in the order of their first one
AgentX_detect_system_crashes(all_events) ==
    LET Faulty(x) == Get(x.event, "status") \in CrashStatuses
        Key(x) == <<Get(x.event, "station_id"), x.source>>
        PerEvent(i, x) ==
            LET same == {j \in 1..Len(all_events) :
                            Faulty(all_events[j]) /\ Key(all_events[j]) = Key(x)}
                first == CHOOSE j \in same : \A k \in same : j <= k
                last == CHOOSE j \in same : \A k \in same : k <= j
                count == Cardinality(same)
                start == all_events[first].timestamp
                duration == fromisoformat(all_events[last].timestamp) - fromisoformat(start)
                \* scores in tenths: duration / 10 is duration tenths
                risk_score == Min(75 * 10 + count * 2 * 10 + duration, 100 * 10)
            IN  IF ~Faulty(x) THEN <<>>
                ELSE IF i # first THEN <<>>
                ELSE <<[timestamp |-> start,
                        type |-> "SYSTEM_CRASH",
                        station_id |-> Get(x.event, "station_id"),
                        duration_seconds |-> duration,
                        crash_count |-> count,
                        system_source |-> x.source,
                        risk_score |-> risk_score,
                        severity |-> AgentX_classify_severity(risk_score, 10)]>>
    IN  Flatten([n_ \in 1..Len(all_events) |-> PerEvent(n_, all_events[n_])])

\* OperationalAlgorithms.detect_staffing_needs (AgentX)
AgentX_detect_staffing_needs(queue_events, queue_threshold, wait_threshold) ==
    LET PerQueue(queue) ==
            LET customer_count == queue.data.customer_count
                wait_time == queue.data.average_dwell_time
                needs_staff_ == \/ customer_count > queue_threshold /\ wait_time > wait_threshold
                                \/ 2 * customer_count > 3 * queue_threshold
                \* scores over the denominator 12: (wait - threshold) / 60 * 5
                risk_score == AgentX_calculate_risk_score(
                                  55 * 12,
                                  <<Max(customer_count - queue_threshold, 0) * 4 * 12,
                                    IF wait_time > wait_threshold
                                    THEN Min(wait_time - wait_threshold, 20 * 12) ELSE 0>>, 12)
            IN  IF needs_staff_
                THEN <<[timestamp |-> queue.timestamp,
                        type |-> "STAFFING_NEEDS",
                        station_id |-> queue.station_id,
                        Staff_type |-> "Cashier",
                        reason |-> [Queue |-> customer_count, Wait |-> wait_time],
                        risk_score |-> RoundHalfEven(risk_score * 10, 12),
                        severity |-> AgentX_classify_severity(risk_score, 12)]>>
                ELSE <<>>
    IN  Flatten([n_ \in 1..Len(queue_events) |-> PerQueue(queue_events[n_])])

\* InventoryAlgorithms.track_successful_operations (AgentX): rfid_index
\* holds the SKU of the last RFID record with a SKU at the key, and a key
\* absent from an index reads None
AgentX_track_successful_operations(pos_events_, rfid_events_, recognition_events) ==
    LET with_sku == SelectSeq(rfid_events_, LAMBDA r : Get(r.data, "sku") \notin {None, ""})
        PerPos(pos) ==
            LET r == last_at(with_sku, pos.timestamp, pos.station_id)
                v == last_at(recognition_events, pos.timestamp, pos.station_id)
                rfid_sku == IF r = 0 THEN None ELSE with_sku[r].data.sku
                recog_sku == IF v = 0 THEN None
                             ELSE recognition_events[v].data.predicted_product
                pos_sku == pos.data.sku
            IN  IF rfid_sku = recog_sku /\ recog_sku = pos_sku
                THEN <<[timestamp |-> pos.timestamp,
                        type |-> "SUCCESS",
                        station_id |-> pos.station_id,
                        customer_id |-> pos.data.customer_id,
                        product_sku |-> pos_sku,
                        service_score |-> 95,
                        risk_score |-> 50,
                        severity |-> "LOW"]>>
                ELSE <<>>
    IN  Flatten([n_ \in 1..Len(pos_events_) |-> PerPos(pos_events_[n_])])

\* the only rule of the AgentX pass that raises on these streams: the
\* division by a catalog weight of zero
AgentX_process_all_events_raises(pos_events_, products_) ==
    weight_discrepancies_raises(pos_events_, products_)

\* EventDetectionEngine.process_all_events (AgentX): all_detected, when no
\* rule raises
AgentX_process_all_events(pos_events_, rfid_events_, recognition_events, queue_events, inventory_snapshots_, products_, now) ==
    LET th == AgentX_THRESHOLDS
        scanner_avoidance ==
            AgentX_detect_scanner_avoidance(rfid_events_, pos_events_,
                                            th.rfid_pos_time_window, products_)
        barcode_switching ==
            AgentX_detect_barcode_switching(recognition_events, pos_events_,
                                            th.product_recognition_confidence, products_)
        weight_discrepancies ==
            AgentX_detect_weight_discrepancies(pos_events_, products_,
                                               th.weight_tolerance_percent)
        long_queues == AgentX_detect_long_queues(queue_events, th.queue_length_alert)
        long_waits == AgentX_detect_long_wait_times(queue_events, th.wait_time_alert)
        all_events_merged ==
            AgentX_merge_all_events(pos_events_, rfid_events_, recognition_events,
                                    queue_events, inventory_snapshots_)
        system_crashes == AgentX_detect_system_crashes(all_events_merged)
        staffing_needs ==
            AgentX_detect_staffing_needs(queue_events, th.queue_length_alert,
                                         th.staffing_wait_threshold)
        inventory_discrepancies ==
            IF Len(inventory_snapshots_) > 0
            THEN AgentX_detect_inventory_discrepancies(
                     inventory_snapshots_[1].data, rfid_events_, pos_events_,
                     th.inventory_discrepancy_threshold, now)
            ELSE <<>>
        successful ==
            AgentX_track_successful_operations(pos_events_, rfid_events_,
                                               recognition_events)
    IN  scanner_avoidance \o barcode_switching \o weight_discrepancies
            \o long_queues \o long_waits \o system_crashes \o staffing_needs
            \o inventory_discrepancies \o successful

\* config.EVENT_TYPES.get(event_type, {}).get('id', 'E999') (AgentX)
AgentX_EVENT_TYPES_id(event_type) ==
    CASE event_type = "SUCCESS" -> "E000"
      [] event_type = "SCANNER_AVOIDANCE" -> "E001"
      [] event_type = "BARCODE_SWITCHING" -> "E002"
      [] event_type = "WEIGHT_DISCREPANCY" -> "E003"
      [] event_type = "SYSTEM_CRASH" -> "E004"
      [] event_type = "LONG_QUEUE" -> "E005"
      [] event_type = "LONG_WAIT" -> "E006"
      [] event_type = "INVENTORY_DISCREPANCY" -> "E007"
      [] event_type = "STAFFING_NEEDS" -> "E008"
      [] event_type = "CHECKOUT_ACTION" -> "E009"
      [] OTHER -> "E999"

\* config.EVENT_TYPES.get(event_type, {}).get('name', 'Unknown Event') (AgentX)
AgentX_EVENT_TYPES_name(event_type) ==
    CASE event_type = "SUCCESS" -> "Successful Operation"
      [] event_type = "SCANNER_AVOIDANCE" -> "Scanner Avoidance"
      [] event_type = "BARCODE_SWITCHING" -> "Barcode Switching"
      [] event_type = "WEIGHT_DISCREPANCY" -> "Weight Discrepancies"
      [] event_type = "SYSTEM_CRASH" -> "Unexpected Systems Crash"
      [] event_type = "LONG_QUEUE" -> "Long Queue Length"
      [] event_type = "LONG_WAIT" -> "Long Wait Time"
      [] event_type = "INVENTORY_DISCREPANCY" -> "Inventory Discrepancy"
      [] event_type = "STAFFING_NEEDS" -> "Staffing Needs"
      [] event_type = "CHECKOUT_ACTION" -> "Checkout Station Action"
      [] OTHER -> "Unknown Event"

\* the keys format_event_output (AgentX) never copies into event_data
AgentX_envelope_keys == {"timestamp", "type", "risk_score", "severity", "_source"}

\* "if value is not None": the copied keys of the event
AgentX_not_none(event) ==
    {key \in DOMAIN event \ AgentX_envelope_keys : JsonGet(event, key) # <<>>}

\* EventDetectionEngine.format_event_output (AgentX)
AgentX_format_event_output(event) ==
    LET event_name == AgentX_EVENT_TYPES_name(event.type)
        event_data == ("event_name" :> <<event_name>>)
                          @@ [key \in AgentX_not_none(event) |-> JsonGet(event, key)]
    IN  [timestamp |-> event.timestamp,
         event_id |-> AgentX_EVENT_TYPES_id(event.type),
         event_data |-> event_data]

\* the lines save_events (AgentX) writes
AgentX_save_events(detected) ==
    LET sorted_events == SortByTimestamp(detected)
    IN  [i \in 1..Len(sorted_events) |-> AgentX_format_event_output(sorted_events[i])]

-----------------------------------------------------------------------------
(* Specification of the two engines: a pass over the streams, and the save *)

MaxRuns == 2            \* passes of process_all_events over the same streams
MaxClock == 1           \* readings of datetime.now(): 0..MaxClock
MaxEnginePosLen == 1    \* POS records loaded
MaxEngineRfidLen == 1   \* RFID records loaded

\* a sale of A at its catalog weight, and one at twice that weight
EnginePosRecords ==
    {PosRecord(1, "S1", "A", w, "C1", "Active") : w \in {150, 300}}

\* B seen in the scan area after the sale, a faulty reader, and a record
\* without location
EngineRfidRecords ==
    {RfidRecord(2, "S1", [sku |-> "B", location |-> "IN_SCAN_AREA"], "Active"),
     RfidRecord(1, "S1", [sku |-> "A", location |-> "IN_SCAN_AREA"], "Read Error"),
     RfidRecord(2, "S1", [sku |-> "A"], "Active")}

EngineVisionStreams == {<<>>, <<VisionRecord(1, "S1", "B", 95, "Active")>>}

\* no sample; one over both thresholds; one over 1.5 times the count
\* threshold with a short wait; one at the count threshold with a long wait
EngineQueueStreams ==
    {<<>>, <<QueueRecord(3, "S1", 6, 301, "Active")>>,
     <<QueueRecord(3, "S1", 8, 10, "Active")>>, <<QueueRecord(3, "S1", 5, 400, "Active")>>}

EngineSnapshotStreams == {<<>>, <<[timestamp |-> 0, data |-> [sku \in {"A"} |-> 2]]>>}

EngineCatalogs ==
    {<<>>, CatalogOfA([weight |-> 150, price |-> 280]), CatalogOfA([weight |-> 0, price |-> 280])}

InitEngine ==
    /\ Idle
    /\ scores = <<0, 0>>
    /\ pos_events \in SeqsUpTo(EnginePosRecords, MaxEnginePosLen)
    /\ rfid_events \in SeqsUpTo(EngineRfidRecords, MaxEngineRfidLen)
    /\ product_recognition \in EngineVisionStreams
    /\ queue_monitoring \in EngineQueueStreams
    /\ inventory_snapshots \in EngineSnapshotStreams
    /\ products \in EngineCatalogs
    /\ thresholds = DefaultThresholds

Team01Ops == {"init", "process_all_events", "process_all_events raised", "save_events"}

AgentXOps == {"init", "AgentX_process_all_events", "AgentX_process_all_events raised",
              "AgentX_save_events"}

\* the reconciliation decrementing the dict it was handed instead of a copy
Mutant_inventory_snapshot_after(inventory_snapshot, pos_events_) ==
    expected_inventory(inventory_snapshot, pos_events_)

\* the snapshot dict after detect_inventory_discrepancies has run on it:
\* expected_inventory = inventory_snapshot.copy() is what the loop over the
\* POS sales decrements, so the dict handed in keeps its counts
inventory_snapshot_after(inventory_snapshot, pos_events_) == inventory_snapshot

\* self.inventory_snapshots after a pass: the rule is handed the data of the
\* first snapshot, if there is one
snapshots_after_pass(inventory_snapshots_, pos_events_) ==
    IF inventory_snapshots_ = <<>>
    THEN inventory_snapshots_
    ELSE [inventory_snapshots_ EXCEPT ![1].data = inventory_snapshot_after(@, pos_events_)]

\* one pass of the Team01 engine; now is what datetime.now() reads during it
ProcessAllEvents ==
    /\ op \in Team01Ops
    /\ runs < MaxRuns
    /\ runs' = runs + 1
    /\ \E now \in clock..MaxClock :
           /\ clock' = now
           /\ IF process_all_events_raises(pos_events, rfid_events, product_recognition,
                                           queue_monitoring, inventory_snapshots,
                                           products, thresholds)
              THEN /\ op' = "process_all_events raised"
                   /\ UNCHANGED <<detected_events, prev_detected>>
              ELSE /\ op' = "process_all_events"
                   /\ detected_events' =
                          process_all_events(pos_events, rfid_events, product_recognition,
                                             queue_monitoring, inventory_snapshots,
                                             products, thresholds, now)
                   /\ prev_detected' = detected_events
    /\ inventory_snapshots' = snapshots_after_pass(inventory_snapshots, pos_events)
    /\ UNCHANGED <<pos_events, rfid_events, product_recognition, queue_monitoring,
                   products, thresholds, saved, result, scores>>

\* save_events of the Team01 engine
SaveEvents ==
    /\ op \in Team01Ops
    /\ op' = "save_events"
    /\ saved' = save_events(detected_events)
    /\ UNCHANGED <<inputs, clock, detected_events, prev_detected, runs, result, scores>>

\* one pass of the AgentX engine
AgentXProcessAllEvents ==
    /\ op \in AgentXOps
    /\ runs < MaxRuns
    /\ runs' = runs + 1
    /\ \E now \in clock..MaxClock :
           /\ clock' = now
           /\ IF AgentX_process_all_events_raises(pos_events, products)
              THEN /\ op' = "AgentX_process_all_events raised"
                   /\ UNCHANGED <<detected_events, prev_detected>>
              ELSE /\ op' = "AgentX_process_all_events"
                   /\ detected_events' =
                          AgentX_process_all_events(pos_events, rfid_events,
                                                    product_recognition, queue_monitoring,
                                                    inventory_snapshots, products, now)
                   /\ prev_detected' = detected_events
    /\ UNCHANGED <<inputs, saved, result, scores>>

\* save_events of the AgentX engine
AgentXSaveEvents ==
    /\ op \in AgentXOps
    /\ op' = "AgentX_save_events"
    /\ saved' = AgentX_save_events(detected_events)
    /\ UNCHANGED <<inputs, clock, detected_events, prev_detected, runs, result, scores>>

NextEngine == ProcessAllEvents \/ SaveEvents \/ AgentXProcessAllEvents \/ AgentXSaveEvents

SpecEngine == InitEngine /\ [][NextEngine]_vars

\* C7: two passes of process_all_events over the same unchanged streams,
\* catalog and snapshot yield the identical set of Detected Events,
\* timestamps included, whenever each pass happens.
C7_Idempotent ==
    (runs >= 2 /\ op \in {"process_all_events", "AgentX_process_all_events"})
        => Range(detected_events) = Range(prev_detected)

Saved == op \in {"save_events", "AgentX_save_events"}

\* C9: the sequence save_events emits is non-decreasing by timestamp (and
\* holds one line per detection), whatever order the rules appended in.
C9_SavedSorted ==
    Saved => /\ Len(saved) = Len(detected_events)
             /\ \A i \in 1..(Len(saved) - 1) : saved[i].timestamp <= saved[i + 1].timestamp

\* the rules appended a later detection before an earlier one
C9_Witness ==
    /\ Saved
    /\ \E i \in 1..(Len(detected_events) - 1) :
           detected_events[i].timestamp > detected_events[i + 1].timestamp
    /\ \E i \in 1..(Len(saved) - 1) : saved[i].timestamp < saved[i + 1].timestamp

\* C10: no field of a formatted event's event_data is null; an optional
\* attribute absent or null in the detection is left out.
C10_NoNullField ==
    Saved => \A i \in 1..Len(saved) :
                 \A key \in DOMAIN saved[i].event_data : saved[i].event_data[key] # <<>>

\* Team01: a scanner avoidance of a product without catalog price is saved
\* without estimated_loss
C10_Witness ==
    /\ op = "save_events"
    /\ \E i \in 1..Len(detected_events) :
           /\ detected_events[i].type = "SCANNER_AVOIDANCE"
           /\ "estimated_loss" \notin DOMAIN detected_events[i]
    /\ \E i \in 1..Len(saved) :
           /\ saved[i].event_id = "E001"
           /\ "estimated_loss" \notin DOMAIN saved[i].event_data
           /\ "product_sku" \in DOMAIN saved[i].event_data

\* AgentX: a scanner avoidance whose estimated_loss is None is saved without it
C10_WitnessAgentX ==
    /\ op = "AgentX_save_events"
    /\ \E i \in 1..Len(detected_events) :
           /\ detected_events[i].type = "SCANNER_AVOIDANCE"
           /\ detected_events[i].estimated_loss = NoneNum
    /\ \E i \in 1..Len(saved) :
           /\ saved[i].event_id = "E001"
           /\ "estimated_loss" \notin DOMAIN saved[i].event_data
           /\ "product_sku" \in DOMAIN saved[i].event_data


\* the detections in the order save_events formats them
SortedDetections == SortByTimestamp(detected_events)

\* C11: every formatted output event has exactly the keys timestamp, event_id
\* and event_data, and its event_data holds event_name together with the
\* detection's risk_score and severity.
C11_OutputContract ==
    Saved =>
        \A i \in 1..Len(saved) :
            /\ DOMAIN saved[i] = {"timestamp", "event_id", "event_data"}
            /\ {"event_name", "risk_score", "severity"} \subseteq DOMAIN saved[i].event_data
            /\ saved[i].event_data.risk_score = <<SortedDetections[i].risk_score>>
            /\ saved[i].event_data.severity = <<SortedDetections[i].severity>>

-----------------------------------------------------------------------------
(* SpecHighRisk: detect_high_risk_customers over the fraud detections      *)

MaxFraudLen == 3       \* fraud detections handed to the aggregator
MaxMinEvents == 2      \* min_events: 1..MaxMinEvents

\* a fraud detection as the three fraud rules emit it; station_id and
\* customer_id are left out when given as <<>>
FraudEvent(t, station, customer, risk) ==
    [timestamp |-> t, type |-> "SCANNER_AVOIDANCE", risk_score |-> risk,
     severity |-> Fraud_classify_severity(risk, 10)]
        @@ (IF station = <<>> THEN <<>> ELSE [station_id |-> station[1]])
        @@ (IF customer = <<>> THEN <<>> ELSE [customer_id |-> customer[1]])

\* whole-point scores in tenths; 690 is below 80 - 10, 700 is 80 - 10
HighRiskFraudEvents ==
    {FraudEvent(1, <<"S1">>, <<"C1">>, r) : r \in {690, 700, 1000}}
        \cup {FraudEvent(1, <<"S2">>, <<"C1">>, r) : r \in {700, 1000}}
        \cup {FraudEvent(2, <<"S1">>, <<"C2">>, 860),
              FraudEvent(2, <<>>, <<"C1">>, 860),
              FraudEvent(2, <<"S1">>, <<>>, 1000)}

MinScores == {80, 90}

InitHighRisk ==
    /\ pos_events = <<>>
    /\ rfid_events = <<>>
    /\ product_recognition = <<>>
    /\ queue_monitoring = <<>>
    /\ inventory_snapshots = <<>>
    /\ products = <<>>
    /\ thresholds \in {[DefaultThresholds EXCEPT !.high_risk_customer_events = n,
                                                 !.high_risk_customer_score = s] :
                          n \in 1..MaxMinEvents, s \in MinScores}
    /\ clock = 0
    /\ detected_events \in SeqsUpTo(HighRiskFraudEvents, MaxFraudLen)
    /\ prev_detected = <<>>
    /\ runs = 0
    /\ saved = <<>>
    /\ op = "init"
    /\ result = <<>>
    /\ scores = <<0, 0>>

RunHighRiskCustomers ==
    /\ op = "init"
    /\ op' = "detect_high_risk_customers"
    /\ result' = detect_high_risk_customers(detected_events,
                                            thresholds.high_risk_customer_events,
                                            thresholds.high_risk_customer_score)
    /\ UNCHANGED <<inputs, clock, detected_events, prev_detected, runs, saved, scores>>

NextHighRisk == RunHighRiskCustomers

SpecHighRisk == InitHighRisk /\ [][NextHighRisk]_vars

HighRiskRan == op = "detect_high_risk_customers"

\* the input events of a customer whose score is within 10 points of min_score
QualifyingEvents(customer) ==
    {i \in 1..Len(detected_events) :
        /\ Has(detected_events[i], "customer_id")
        /\ detected_events[i].customer_id = customer
        /\ detected_events[i].risk_score
               >= (thresholds.high_risk_customer_score - 10) * 10}

RECURSIVE SumOfScores(_)
SumOfScores(S) ==
    IF S = {} THEN 0
    ELSE LET i == CHOOSE i \in S : TRUE
         IN  detected_events[i].risk_score + SumOfScores(S \ {i})

\* the mean of the qualifying scores plus 5 per counted event, clamped to 100
\* and rounded to one decimal (tenths)
MeanPlusIncrements(customer, counted) ==
    LET n == Cardinality(QualifyingEvents(customer))
    IN  RoundHalfEven(Min(SumOfScores(QualifyingEvents(customer)) + counted * 50 * n,
                          1000 * n), n)

\* C12 as stated: the score is the mean of the qualifying scores plus 5 for
\* each qualifying event beyond min_events, clamped to 100; with exactly
\* min_events qualifying events it is the mean.
C12_IncrementBeyondN ==
    HighRiskRan =>
        \A k \in 1..Len(result) :
            LET n == Cardinality(QualifyingEvents(result[k].customer_id))
            IN  result[k].risk_score =
                    MeanPlusIncrements(result[k].customer_id,
                                       n - thresholds.high_risk_customer_events)

\* C12 amended: the score is the mean of the qualifying scores plus 5 for each
\* qualifying event beyond min_events - 1, clamped to 100 and rounded to one
\* decimal; with exactly min_events qualifying events it is the mean plus 5.
C12_IncrementBeyondNLessOne ==
    HighRiskRan =>
        \A k \in 1..Len(result) :
            LET n == Cardinality(QualifyingEvents(result[k].customer_id))
            IN  result[k].risk_score =
                    MeanPlusIncrements(result[k].customer_id,
                                       n - thresholds.high_risk_customer_events + 1)

\* a customer with exactly min_events = 2 qualifying events of different
\* scores, scored mean + 5 below the clamp
C12_Witness ==
    /\ HighRiskRan
    /\ thresholds.high_risk_customer_events = 2
    /\ \E k \in 1..Len(result) :
           LET Q == QualifyingEvents(result[k].customer_id)
           IN  /\ Cardinality(Q) = 2
               /\ \E i, j \in Q : detected_events[i].risk_score
                                      # detected_events[j].risk_score
               /\ 2 * result[k].risk_score = SumOfScores(Q) + 2 * 50
               /\ result[k].risk_score < 1000

\* a customer with more qualifying events than min_events
C12_WitnessBeyond ==
    /\ HighRiskRan
    /\ \E k \in 1..Len(result) :
           /\ Cardinality(QualifyingEvents(result[k].customer_id))
                  > thresholds.high_risk_customer_events
           /\ result[k].risk_score < 1000

\* C13: every HIGH_RISK_CUSTOMER detection has risk_score >= min_score.
C13_AtLeastMinScore ==
    HighRiskRan =>
        \A k \in 1..Len(result) :
            result[k].risk_score >= thresholds.high_risk_customer_score * 10

\* the grouped customer ids of the input
CustomerIds ==
    {detected_events[i].customer_id :
        i \in {i \in 1..Len(detected_events) : Has(detected_events[i], "customer_id")}}

\* the qualifying events of a customer that name the station
AtStation(customer, station) ==
    {i \in QualifyingEvents(customer) :
        Has(detected_events[i], "station_id") /\ detected_events[i].station_id = station}

StationIds == {"S1", "S2"}

C14_WitnessStation ==
    /\ HighRiskRan
    /\ \E k \in 1..Len(result) :
           /\ Len(result[k].station_summary) = 2
           /\ result[k].station_summary[1].event_count
                  > result[k].station_summary[2].event_count
           /\ 1 \in QualifyingEvents(result[k].customer_id)
           /\ Has(detected_events[1], "station_id")
           /\ detected_events[1].station_id # result[k].station_id

-----------------------------------------------------------------------------
(* SpecCrash: detect_system_crashes of both trees over the status fields   *)

MaxCrashPosLen == 3    \* POS records
MaxCrashQueueLen == 1  \* queue records

\* S1 nominal or crashed at three instants 20 s apart, a read error at S2 and
\* a crash record without station
CrashPosRecords ==
    {PosRecord(t, "S1", "A", 150, "C1", status) :
        t \in {0, 20, 40}, status \in {"Active", "System Crash"}}
        \cup {PosRecord(20, "S2", "A", 150, "C1", "Read Error"),
              PosRecord(0, None, "A", 150, "C1", "System Crash")}

CrashQueueRecords ==
    {QueueRecord(0, "S1", 1, 10, "Active"), QueueRecord(20, "S1", 1, 10, "System Crash")}

InitCrash ==
    /\ Idle
    /\ scores = <<0, 0>>
    /\ pos_events \in SeqsUpTo(CrashPosRecords, MaxCrashPosLen)
    /\ rfid_events = <<>>
    /\ product_recognition = <<>>
    /\ queue_monitoring \in SeqsUpTo(CrashQueueRecords, MaxCrashQueueLen)
    /\ inventory_snapshots = <<>>
    /\ products = <<>>
    /\ thresholds = DefaultThresholds

RunSystemCrashes ==
    /\ op = "init"
    /\ IF system_crashes_raises(pos_events, product_recognition, rfid_events,
                                queue_monitoring)
       THEN /\ op' = "ValueError"
            /\ result' = <<>>
       ELSE /\ op' = "detect_system_crashes"
            /\ result' = detect_system_crashes(pos_events, product_recognition,
                                               rfid_events, queue_monitoring)
    /\ UNCHANGED <<inputs, clock, detected_events, prev_detected, runs, saved, scores>>

\* the AgentX rule as its engine calls it, over merge_all_events()
RunAgentXSystemCrashes ==
    /\ op = "init"
    /\ op' = "AgentX_detect_system_crashes"
    /\ result' = AgentX_detect_system_crashes(
                     AgentX_merge_all_events(pos_events, rfid_events, product_recognition,
                                             queue_monitoring, inventory_snapshots))
    /\ UNCHANGED <<inputs, clock, detected_events, prev_detected, runs, saved, scores>>

\* the AgentX rule handed the POS records in the order they are supplied,
\* each tagged _source 'pos'
RunAgentXSystemCrashesAsSupplied ==
    /\ op = "init"
    /\ op' = "AgentX_detect_system_crashes as supplied"
    /\ result' = AgentX_detect_system_crashes(
                     [i \in 1..Len(pos_events) |->
                         [timestamp |-> pos_events[i].timestamp,
                          event |-> pos_events[i], source |-> "pos"]])
    /\ UNCHANGED <<inputs, clock, detected_events, prev_detected, runs, saved, scores>>

NextCrash == RunSystemCrashes \/ RunAgentXSystemCrashes \/ RunAgentXSystemCrashesAsSupplied

SpecCrash == InitCrash /\ [][NextCrash]_vars

CrashRan == op \in {"detect_system_crashes", "AgentX_detect_system_crashes"}

\* the source tags of the rule that ran, with the stream each one names
CrashSourceTags ==
    IF op = "detect_system_crashes"
    THEN [pos |-> "POS", recognition |-> "Product Recognition",
          rfid |-> "RFID", queue |-> "Queue Monitor"]
    ELSE [pos |-> "pos", recognition |-> "recognition", rfid |-> "rfid", queue |-> "queue"]

CrashStreams ==
    [pos |-> pos_events, recognition |-> product_recognition,
     rfid |-> rfid_events, queue |-> queue_monitoring]

CrashStations == {"S1", "S2", None}

\* the records of a stream with a crash status at the station
CrashRecords(stream, station) ==
    {i \in 1..Len(stream) :
        /\ Get(stream[i], "status") \in CrashStatuses
        /\ Get(stream[i], "station_id") = station}

-----------------------------------------------------------------------------
(* SpecRfidJoin: the rules that read RFID records, over records with and   *)
(* without SKU                                                             *)

MaxJoinPosLen == 1     \* POS records
MaxJoinRfidLen == 2    \* RFID records
MaxJoinVisionLen == 1  \* vision records

\* a sale of A, a sale whose sku is null, and a later sale of A
JoinPosRecords ==
    {PosRecord(1, "S1", sku, 150, "C1", "Active") : sku \in {"A", None}}
        \cup {PosRecord(2, "S1", "A", 150, "C1", "Active")}

\* readings of A and B, a reading whose sku is null and one without sku
JoinRfidRecords ==
    {RfidRecord(1, "S1", [sku |-> sku, location |-> "IN_SCAN_AREA"], "Active") :
        sku \in {"A", "B", None}}
        \cup {RfidRecord(1, "S1", [location |-> "IN_SCAN_AREA"], "Active")}

JoinVisionRecords ==
    {VisionRecord(1, "S1", predicted_product, 95, "Active") :
        predicted_product \in {"A", None}}

InitRfidJoin ==
    /\ Idle
    /\ scores = <<0, 0>>
    /\ pos_events \in SeqsUpTo(JoinPosRecords, MaxJoinPosLen)
    /\ rfid_events \in SeqsUpTo(JoinRfidRecords, MaxJoinRfidLen)
    /\ product_recognition \in SeqsUpTo(JoinVisionRecords, MaxJoinVisionLen)
    /\ queue_monitoring = <<>>
    /\ inventory_snapshots = <<[timestamp |-> 0, data |-> [sku \in {"A"} |-> 1]]>>
    /\ products = CatalogOfA([weight |-> 150, price |-> 280])
    /\ thresholds = DefaultThresholds

RunTrackSuccessfulOperations ==
    /\ op = "init"
    /\ IF track_successful_operations_raises(pos_events, rfid_events, product_recognition)
       THEN /\ op' = "KeyError"
            /\ result' = <<>>
       ELSE /\ op' = "track_successful_operations"
            /\ result' = track_successful_operations(pos_events, rfid_events,
                                                     product_recognition)
    /\ UNCHANGED <<inputs, clock, detected_events, prev_detected, runs, saved, scores>>

RunAgentXTrackSuccessfulOperations ==
    /\ op = "init"
    /\ op' = "AgentX_track_successful_operations"
    /\ result' = AgentX_track_successful_operations(pos_events, rfid_events,
                                                    product_recognition)
    /\ UNCHANGED <<inputs, clock, detected_events, prev_detected, runs, saved, scores>>

NextRfidJoin ==
    \/ RunTrackSuccessfulOperations
    \/ RunAgentXTrackSuccessfulOperations
    \/ RunScannerAvoidance
    \/ RunInventoryDiscrepancies

SpecRfidJoin == InitRfidJoin /\ [][NextRfidJoin]_vars

SuccessRan == op \in {"track_successful_operations", "AgentX_track_successful_operations"}

\* C16: a SUCCESS is emitted for a POS record only if an RFID record and a
\* vision record exist at its (timestamp, station) and the RFID sku, the
\* predicted sku and the POS sku are the same actual (non-null) sku; every
\* SUCCESS has risk_score 5.0 and severity LOW.
C16_SuccessOnlyOnAgreement ==
    SuccessRan =>
        \A k \in 1..Len(result) :
            /\ result[k].type = "SUCCESS"
            /\ result[k].risk_score = 50
            /\ result[k].severity = "LOW"
            /\ result[k].product_sku # None
            /\ \E p \in 1..Len(pos_events) :
                   /\ pos_events[p].timestamp = result[k].timestamp
                   /\ pos_events[p].station_id = result[k].station_id
                   /\ pos_events[p].data.sku = result[k].product_sku
            /\ \E r \in 1..Len(rfid_events) :
                   /\ rfid_events[r].timestamp = result[k].timestamp
                   /\ rfid_events[r].station_id = result[k].station_id
                   /\ Get(rfid_events[r].data, "sku") = result[k].product_sku
            /\ \E v \in 1..Len(product_recognition) :
                   /\ product_recognition[v].timestamp = result[k].timestamp
                   /\ product_recognition[v].station_id = result[k].station_id
                   /\ product_recognition[v].data.predicted_product = result[k].product_sku

\* an RFID record without sku: the field absent or null
NoSku(rfid) == Get(rfid.data, "sku") = None

\* the RFID stream as if the records without sku were absent
RfidWithSku == SelectSeq(rfid_events, LAMBDA rfid : ~NoSku(rfid))

\* C17: an RFID record with no sku (absent or null) is skipped by scanner
\* avoidance, inventory reconciliation and multi-source validation: the rule
\* does not raise and returns what it returns without the record.
C17_NoSkuRecordSkipped ==
    /\ op # "KeyError"
    /\ op = "detect_scanner_avoidance" =>
           result = detect_scanner_avoidance(RfidWithSku, pos_events,
                                             thresholds.rfid_pos_time_window, products)
    /\ op = "detect_inventory_discrepancies" =>
           result = detect_inventory_discrepancies(
                        inventory_snapshots[1].data, RfidWithSku, pos_events,
                        thresholds.inventory_discrepancy_threshold, clock)
    /\ op = "track_successful_operations" =>
           result = track_successful_operations(pos_events, RfidWithSku,
                                                product_recognition)

\* a pass in which one of the rules raised
PassRaised == op \in {"process_all_events raised", "AgentX_process_all_events raised"}

\* what scanner avoidance, which ran before the rule that raised, detected
ScannerAvoidanceDetections ==
    IF op \in Team01Ops
    THEN detect_scanner_avoidance(rfid_events, pos_events,
                                  thresholds.rfid_pos_time_window, products)
    ELSE AgentX_detect_scanner_avoidance(rfid_events, pos_events,
                                         AgentX_THRESHOLDS.rfid_pos_time_window, products)

\* C18: if one rule raises during process_all_events the pass still completes:
\* the pass does not end in the exception and the detections of the other
\* rules are returned.
C18_PassSurvivesRaisingRule ==
    /\ ~PassRaised
    /\ runs > 0 => Range(ScannerAvoidanceDetections) \subseteq Range(detected_events)

-----------------------------------------------------------------------------
(* SpecTimestamp: the rules that compare instants, over records whose      *)
(* timestamp may not parse                                                 *)

MaxStampPosLen == 1    \* POS records
MaxStampRfidLen == 1   \* RFID records
MaxStampQueueLen == 2  \* queue records

\* timestamp -1 is a string that is no valid instant
StampPosRecords ==
    {PosRecord(t, "S1", "A", 150, "C1", status) :
        t \in {-1, 1}, status \in {"Active", "System Crash"}}

StampRfidRecords ==
    {RfidRecord(t, "S1", [sku |-> "B", location |-> "IN_SCAN_AREA"], "Active") :
        t \in {-1, 1}}

\* samples breaching the default queue threshold
StampQueueRecords == {QueueRecord(t, "S1", 6, 10, "Active") : t \in {-1, 1, 2}}

InitTimestamp ==
    /\ Idle
    /\ scores = <<0, 0>>
    /\ pos_events \in SeqsUpTo(StampPosRecords, MaxStampPosLen)
    /\ rfid_events \in SeqsUpTo(StampRfidRecords, MaxStampRfidLen)
    /\ product_recognition = <<>>
    /\ queue_monitoring \in SeqsUpTo(StampQueueRecords, MaxStampQueueLen)
    /\ inventory_snapshots = <<>>
    /\ products = <<>>
    /\ thresholds \in {[DefaultThresholds EXCEPT !.station_alert_occurrences = 1,
                                                 !.station_alert_window_minutes = w] :
                          w \in {0, 15}}

NextTimestamp == RunScannerAvoidance \/ RunStationPressure \/ RunSystemCrashes

SpecTimestamp == InitTimestamp /\ [][NextTimestamp]_vars

\* a stream as if the records whose timestamp does not parse were absent
WellFormed(stream) == SelectSeq(stream, LAMBDA e : ~fromisoformat_raises(e.timestamp))

\* C19: a record whose timestamp is no valid instant is excluded from the
\* scanner-avoidance join, the station-pressure window and the crash-session
\* duration: the rule completes and returns what it returns without the record.
C19_MalformedTimestampExcluded ==
    /\ op # "ValueError"
    /\ op = "detect_scanner_avoidance" =>
           result = detect_scanner_avoidance(WellFormed(rfid_events), WellFormed(pos_events),
                                             thresholds.rfid_pos_time_window, products)
    /\ op = "detect_station_pressure" =>
           result = detect_station_pressure(WellFormed(queue_monitoring),
                                            thresholds.queue_length_alert,
                                            thresholds.station_alert_wait_threshold,
                                            thresholds.station_alert_occurrences,
                                            thresholds.station_alert_window_minutes)
    /\ op = "detect_system_crashes" =>
           result = detect_system_crashes(WellFormed(pos_events), product_recognition,
                                          WellFormed(rfid_events),
                                          WellFormed(queue_monitoring))

-----------------------------------------------------------------------------
(* SpecCatalog: the fraud rules over SKUs that are and are not in the      *)
(* product catalog                                                         *)

MaxCatalogPosLen == 1     \* POS records
MaxCatalogRfidLen == 1    \* RFID records
MaxCatalogVisionLen == 1  \* vision records

\* the catalog holds A at most; B is in no catalog
CatalogPosRecords ==
    {PosRecord(1, "S1", sku, w, "C1", "Active") : sku \in {"A", "B"}, w \in {150, 300}}

\* readings at the sale and beyond the window after it
CatalogRfidRecords ==
    {RfidRecord(t, "S1", [sku |-> sku, location |-> "IN_SCAN_AREA"], "Active") :
        sku \in {"A", "B"}, t \in {1, 30}}

CatalogVisionRecords ==
    {VisionRecord(1, "S1", predicted_product, accuracy, "Active") :
        predicted_product \in {"A", "B"}, accuracy \in {50, 95}}

InitCatalog ==
    /\ Idle
    /\ scores = <<0, 0>>
    /\ pos_events \in SeqsUpTo(CatalogPosRecords, MaxCatalogPosLen)
    /\ rfid_events \in SeqsUpTo(CatalogRfidRecords, MaxCatalogRfidLen)
    /\ product_recognition \in SeqsUpTo(CatalogVisionRecords, MaxCatalogVisionLen)
    /\ queue_monitoring = <<>>
    /\ inventory_snapshots = <<>>
    /\ products \in {<<>>, CatalogOfA([weight |-> 150, price |-> 280])}
    /\ thresholds = DefaultThresholds

NextCatalog == RunScannerAvoidance \/ RunBarcodeSwitching \/ RunWeightDiscrepancies

SpecCatalog == InitCatalog /\ [][NextCatalog]_vars

InCatalog(sku) == sku \in DOMAIN products

\* an RFID reading of a SKU the catalog lacks, with no sale of it at the
\* station within the window
UnscannedUnknown(rfid) ==
    /\ ~InCatalog(rfid.data.sku)
    /\ rfid.data.location = "IN_SCAN_AREA"
    /\ \A i \in 1..Len(pos_events) :
           \/ pos_events[i].data.sku # rfid.data.sku
           \/ pos_events[i].station_id # rfid.station_id
           \/ Abs(pos_events[i].timestamp - rfid.timestamp)
                  > thresholds.rfid_pos_time_window

\* a confident prediction that differs from the sale at its key (the last one
\* recorded there), one of the two SKUs missing from the catalog
SwitchedUnknown(recognition) ==
    /\ recognition.data.accuracy >= thresholds.product_recognition_confidence
    /\ \E i \in 1..Len(pos_events) :
           /\ pos_events[i].timestamp = recognition.timestamp
           /\ pos_events[i].station_id = recognition.station_id
           /\ \A j \in (i + 1)..Len(pos_events) :
                  \/ pos_events[j].timestamp # recognition.timestamp
                  \/ pos_events[j].station_id # recognition.station_id
           /\ pos_events[i].data.sku # recognition.data.predicted_product
           /\ \/ ~InCatalog(pos_events[i].data.sku)
              \/ ~InCatalog(recognition.data.predicted_product)

\* C20: a SKU that is not in the catalog never makes a rule raise; scanner
\* avoidance and barcode switching still emit their detection, scored with the
\* price-dependent factor 0 and without estimated_loss, predicted_price or
\* scanned_price for that SKU; weight discrepancy emits nothing for it.
C20_UnknownSkuNeverRaises ==
    /\ op \in {"init", "detect_scanner_avoidance", "detect_barcode_switching",
               "detect_weight_discrepancies"}
    /\ op = "detect_scanner_avoidance" =>
           /\ \A i \in 1..Len(rfid_events) :
                  UnscannedUnknown(rfid_events[i]) =>
                      \E k \in 1..Len(result) : result[k].evidence = rfid_events[i]
           /\ \A k \in 1..Len(result) :
                  ~InCatalog(result[k].product_sku) =>
                      /\ "estimated_loss" \notin DOMAIN result[k]
                      /\ result[k].risk_score = (75 + 0 + 5) * 10
    /\ op = "detect_barcode_switching" =>
           /\ \A i \in 1..Len(product_recognition) :
                  SwitchedUnknown(product_recognition[i]) =>
                      \E k \in 1..Len(result) :
                          result[k].evidence.recognition = product_recognition[i]
           /\ \A k \in 1..Len(result) :
                  /\ ~InCatalog(result[k].actual_sku) =>
                         "predicted_price" \notin DOMAIN result[k]
                  /\ ~InCatalog(result[k].scanned_sku) =>
                         "scanned_price" \notin DOMAIN result[k]
                  /\ (~InCatalog(result[k].actual_sku) \/ ~InCatalog(result[k].scanned_sku)) =>
                         result[k].risk_score =
                             RoundHalfEven(
                                 Min(70 * 100
                                         + (result[k].confidence
                                                - thresholds.product_recognition_confidence) * 30
                                         + 0,
                                     100 * 100) * 10, 100)
    /\ op = "detect_weight_discrepancies" =>
           \A k \in 1..Len(result) : InCatalog(result[k].product_sku)

\* scanner avoidance of B, which the catalog lacks, scored 80.0 without loss
C20_Witness ==
    /\ op = "detect_scanner_avoidance"
    /\ InCatalog("A")
    /\ \E k \in 1..Len(result) :
           /\ result[k].product_sku = "B"
           /\ result[k].risk_score = 800
           /\ "estimated_loss" \notin DOMAIN result[k]

\* B sold where A was seen: the detection carries A's price only
C20_WitnessBarcode ==
    /\ op = "detect_barcode_switching"
    /\ \E k \in 1..Len(result) :
           /\ result[k].actual_sku = "A"
           /\ result[k].scanned_sku = "B"
           /\ "predicted_price" \in DOMAIN result[k]
           /\ "scanned_price" \notin DOMAIN result[k]

\* a sale of B at twice any catalog weight yields no weight discrepancy
C20_WitnessWeight ==
    /\ op = "detect_weight_discrepancies"
    /\ InCatalog("A")
    /\ \E i \in 1..Len(pos_events) :
           pos_events[i].data.sku = "B" /\ pos_events[i].data.weight_g = 300
    /\ result = <<>>

-----------------------------------------------------------------------------
(* SpecQueue: the per-sample queue rules (long queue, long wait, staffing) *)

MaxSampleLen == 2      \* queue samples

\* counts around the thresholds 4 and 5 and their one-and-a-half (6 and 7.5),
\* waits at and above the threshold 300
QueueSamples ==
    {QueueRecord(1, "S1", customer_count, average_dwell_time, "Active") :
        customer_count \in {0, 5, 6, 7, 8}, average_dwell_time \in {300, 301}}
        \cup {QueueRecord(2, "S2", 6, 301, "Active"), QueueRecord(2, "S2", 8, 300, "Active")}

QueueAlerts == {0, 4, 5}

InitQueue ==
    /\ Idle
    /\ scores = <<0, 0>>
    /\ pos_events = <<>>
    /\ rfid_events = <<>>
    /\ product_recognition = <<>>
    /\ queue_monitoring \in SeqsUpTo(QueueSamples, MaxSampleLen)
    /\ inventory_snapshots = <<>>
    /\ products = <<>>
    /\ thresholds \in {[DefaultThresholds EXCEPT !.queue_length_alert = q] :
                          q \in QueueAlerts}

RunLongQueue ==
    /\ op = "init"
    /\ op' = "detect_long_queue"
    /\ result' = detect_long_queue(queue_monitoring, thresholds.queue_length_alert)
    /\ UNCHANGED <<inputs, clock, detected_events, prev_detected, runs, saved, scores>>

RunLongWaitTime ==
    /\ op = "init"
    /\ op' = "detect_long_wait_time"
    /\ result' = detect_long_wait_time(queue_monitoring, thresholds.wait_time_alert)
    /\ UNCHANGED <<inputs, clock, detected_events, prev_detected, runs, saved, scores>>

RunRecommendStaffing ==
    /\ op = "init"
    /\ op' = "recommend_staffing"
    /\ result' = recommend_staffing(queue_monitoring, thresholds.queue_length_alert,
                                    thresholds.wait_time_alert)
    /\ UNCHANGED <<inputs, clock, detected_events, prev_detected, runs, saved, scores>>

RunAgentXStaffingNeeds ==
    /\ op = "init"
    /\ op' = "AgentX_detect_staffing_needs"
    /\ result' = AgentX_detect_staffing_needs(queue_monitoring,
                                              thresholds.queue_length_alert,
                                              thresholds.wait_time_alert)
    /\ UNCHANGED <<inputs, clock, detected_events, prev_detected, runs, saved, scores>>

NextQueue ==
    \/ RunLongQueue
    \/ RunLongWaitTime
    \/ RunRecommendStaffing
    \/ RunAgentXStaffingNeeds

SpecQueue == InitQueue /\ [][NextQueue]_vars

\* the result holds one detection of the kind per listed sample, in order,
\* with the sample's timestamp and station
OnePerSample(samples, kind) ==
    /\ Len(result) = Len(samples)
    /\ \A k \in 1..Len(result) :
           /\ result[k].type = kind
           /\ result[k].timestamp = samples[k].timestamp
           /\ result[k].station_id = samples[k].station_id

\* the staffing condition in tenths of a customer: 1.5 x threshold is 15 tenths
StaffingCondition(sample) ==
    \/ /\ sample.data.customer_count > thresholds.queue_length_alert
       /\ sample.data.average_dwell_time > thresholds.wait_time_alert
    \/ sample.data.customer_count * 10 > 15 * thresholds.queue_length_alert

StaffingRan == op \in {"recommend_staffing", "AgentX_detect_staffing_needs"}

\* C21: the staffing rule emits exactly one STAFFING_NEEDS for a queue sample
\* if and only if (count > threshold and wait > threshold) or count > 1.5 x
\* threshold; a long wait with count <= threshold yields none.
C21_StaffingCondition ==
    StaffingRan =>
        /\ OnePerSample(SelectSeq(queue_monitoring, StaffingCondition), "STAFFING_NEEDS")
        /\ \A k \in 1..Len(result) :
               \E i \in 1..Len(queue_monitoring) :
                   /\ queue_monitoring[i].timestamp = result[k].timestamp
                   /\ queue_monitoring[i].station_id = result[k].station_id
                   /\ queue_monitoring[i].data.customer_count > thresholds.queue_length_alert

\* threshold 5: a sample of 8 customers at the wait threshold is flagged, one
\* of 5 customers waiting longer is not
C21_Witness ==
    /\ StaffingRan
    /\ thresholds.queue_length_alert = 5
    /\ Len(queue_monitoring) = 2
    /\ queue_monitoring[1] = QueueRecord(1, "S1", 5, 301, "Active")
    /\ queue_monitoring[2] = QueueRecord(1, "S1", 8, 300, "Active")
    /\ Len(result) = 1

\* threshold 4: 6 customers are exactly one and a half times the threshold
C21_WitnessEquality ==
    /\ StaffingRan
    /\ thresholds.queue_length_alert = 4
    /\ queue_monitoring = <<QueueRecord(1, "S1", 6, 300, "Active")>>
    /\ result = <<>>

LongQueueCondition(sample) == sample.data.customer_count > thresholds.queue_length_alert

LongWaitCondition(sample) == sample.data.average_dwell_time > thresholds.wait_time_alert

\* C23: for each queue sample exactly one LONG_QUEUE is emitted iff
\* customer_count > threshold and exactly one LONG_WAIT iff average_dwell_time >
\* threshold, none at equality, each with the sample's timestamp and station.
C23_StrictThresholds ==
    /\ op = "detect_long_queue" =>
           OnePerSample(SelectSeq(queue_monitoring, LongQueueCondition), "LONG_QUEUE")
    /\ op = "detect_long_wait_time" =>
           OnePerSample(SelectSeq(queue_monitoring, LongWaitCondition), "LONG_WAIT")

\* a sample at the count threshold and one above it: one LONG_QUEUE
C23_Witness ==
    /\ op = "detect_long_queue"
    /\ thresholds.queue_length_alert = 5
    /\ Len(queue_monitoring) = 2
    /\ queue_monitoring[1].data.customer_count = 5
    /\ queue_monitoring[2].data.customer_count = 6
    /\ Len(result) = 1
    /\ result[1].num_of_customers = 6

\* a sample at the wait threshold and one above it: one LONG_WAIT
C23_WitnessWait ==
    /\ op = "detect_long_wait_time"
    /\ Len(queue_monitoring) = 2
    /\ queue_monitoring[1].data.average_dwell_time = 300
    /\ queue_monitoring[2].data.average_dwell_time = 301
    /\ Len(result) = 1


(***************************************************************************)
(* Inventory reconciliation, SKU by SKU (SpecInventory)                    *)

\* the SKU, expected and actual counts an emitted discrepancy carries; the
\* two trees name the fields differently
DiscrepancySku(event) ==
    IF op = "AgentX_detect_inventory_discrepancies" THEN event.SKU ELSE event.sku

DiscrepancyExpected(event) ==
    IF op = "AgentX_detect_inventory_discrepancies"
    THEN event.Expected_Inventory ELSE event.expected_inventory

DiscrepancyActual(event) ==
    IF op = "AgentX_detect_inventory_discrepancies"
    THEN event.Actual_Inventory ELSE event.actual_inventory

DiscrepanciesOf(sku) ==
    {k \in 1..Len(result) : /\ result[k].type = "INVENTORY_DISCREPANCY"
                            /\ DiscrepancySku(result[k]) = sku}

\* snapshot count minus the POS sales of the SKU
ExpectedCount(sku) == inventory_snapshots[1].data[sku] - PosSales(sku)

DiscrepancyDue(sku) ==
    /\ sku \in DOMAIN inventory_snapshots[1].data
    /\ ExpectedCount(sku) > 0
    /\ Abs(RfidTally(sku) - ExpectedCount(sku)) * 100
           > thresholds.inventory_discrepancy_threshold * ExpectedCount(sku)

\* C22: when the reconciliation returns, every SKU of the snapshot or of the
\* streams has exactly one INVENTORY_DISCREPANCY if it is in the snapshot,
\* its expected count (snapshot count minus its POS sales) is positive and
\* |actual - expected| / expected * 100 exceeds the threshold percent, and
\* none otherwise; the detection carries that expected count and the actual
\* count (its RFID detections at IN_SCAN_AREA or SHELF); nothing else is
\* emitted, and the rule never ends in an arithmetic fault.
C22_OnePerDifferingSku ==
    /\ op # "ZeroDivisionError"
    /\ InventoryRan =>
        /\ \A sku \in InventorySkus :
            /\ Cardinality(DiscrepanciesOf(sku)) = IF DiscrepancyDue(sku) THEN 1 ELSE 0
            /\ \A k \in DiscrepanciesOf(sku) :
                /\ DiscrepancyExpected(result[k]) = ExpectedCount(sku)
                /\ DiscrepancyActual(result[k]) = RfidTally(sku)
        /\ \A k \in 1..Len(result) :
            /\ result[k].type = "INVENTORY_DISCREPANCY"
            /\ DiscrepancySku(result[k]) \in DOMAIN inventory_snapshots[1].data

\* snapshot {A: 2, B: 1}: B is sold once and still read once by RFID
\* (expected 0, actual 1), A is read once (expected 2, actual 1): the one
\* detection is A's
C22_Witness ==
    /\ InventoryRan
    /\ inventory_snapshots[1].data = [sku \in {"A", "B"} |-> IF sku = "A" THEN 2 ELSE 1]
    /\ PosSales("B") = 1
    /\ RfidTally("B") = 1
    /\ RfidTally("A") = 1
    /\ Len(result) = 1
    /\ DiscrepancySku(result[1]) = "A"

\* more sales than stock: the expected count is negative and nothing is emitted
C22_WitnessNegative ==
    /\ InventoryRan
    /\ inventory_snapshots[1].data = [sku \in {"A"} |-> 1]
    /\ PosSales("A") = 2
    /\ RfidTally("A") = 1
    /\ result = <<>>

\* a sale and a reading of a SKU the snapshot does not list
C22_WitnessNotInSnapshot ==
    /\ InventoryRan
    /\ "B" \notin DOMAIN inventory_snapshots[1].data
    /\ PosSales("B") = 1
    /\ RfidTally("B") = 1
    /\ DiscrepanciesOf("B") = {}

\* exactly at the threshold percent (expected 2, actual 1, 50 %): none
C22_WitnessEquality ==
    /\ InventoryRan
    /\ thresholds.inventory_discrepancy_threshold = 50
    /\ inventory_snapshots[1].data = [sku \in {"A"} |-> 2]
    /\ PosSales("A") = 0
    /\ RfidTally("A") = 1
    /\ result = <<>>


(***************************************************************************)
(* Severity against the stored score (SpecScanner)                         *)

\* C24: the severity of every detection detect_scanner_avoidance computes
\* equals the fraud classifier applied to the risk_score stored in the same
\* detection (the score rounded to one decimal, kept in tenths).
C24_SeverityOfStoredScore ==
    op = "detect_scanner_avoidance" =>
        \A k \in 1..Len(result) :
            result[k].severity = Fraud_classify_severity(result[k].risk_score, 10)


(***************************************************************************)
(* A catalog entry of expected weight 0 (SpecWeight)                       *)

ZeroWeight(pos) ==
    /\ pos.data.sku \in DOMAIN products
    /\ products[pos.data.sku].weight = 0

NotZeroWeight(pos) == ~ZeroWeight(pos)

\* C25: when a POS record's catalog entry has expected weight 0, the
\* weight-discrepancy rule does not end in an arithmetic fault: it returns
\* what it returns for the POS records without the zero-weight ones.
C25_ZeroWeightExcluded ==
    (/\ op # "init"
     /\ \E i \in 1..Len(pos_events) : ZeroWeight(pos_events[i]))
        => /\ op = "detect_weight_discrepancies"
           /\ result = detect_weight_discrepancies(SelectSeq(pos_events, NotZeroWeight),
                                                   products,
                                                   thresholds.weight_tolerance_percent)


(***************************************************************************)
(* The inputs of a pass (SpecEngine)                                       *)

\* C26: no step changes an input: after process_all_events the POS, RFID,
\* vision and queue records, the product catalog and the inventory snapshots
\* are what they were before the pass; the reconciliation decrements a copy
\* of the snapshot.
C26_InputsUnchanged == [][inputs' = inputs]_vars

\* a pass over a snapshot {A: 2} and one sale of A has reported against the
\* expected count 1, and the snapshot still reads 2
C26_Witness ==
    /\ op = "process_all_events"
    /\ inventory_snapshots # <<>>
    /\ inventory_snapshots[1].data["A"] = 2
    /\ Len(pos_events) = 1
    /\ \E k \in 1..Len(detected_events) :
           /\ detected_events[k].type = "INVENTORY_DISCREPANCY"
           /\ detected_events[k].expected_inventory = 1


(***************************************************************************)
(* The duration of a crash session (SpecCrash)                             *)

\* C27: every SYSTEM_CRASH detection a crash rule returns has
\* duration_seconds >= 0, in whatever order the records are supplied.
C27_DurationNotNegative ==
    op \in {"detect_system_crashes", "AgentX_detect_system_crashes",
            "AgentX_detect_system_crashes as supplied"}
        => \A k \in 1..Len(result) : result[k].duration_seconds >= 0


(***************************************************************************)
(* Scanner avoidance against the three-way validation (SpecValidation)     *)

MaxValidationLen == 1   \* records of each of the POS, RFID and vision streams

\* one instant, in the two spellings
ValidationStamps == {1, Respelled(1)}

ValidationPosRecords ==
    {PosRecord(t, "S1", sku, 150, "C1", "Active") : t \in ValidationStamps, sku \in {"A", "B"}}

ValidationRfidRecords ==
    {RfidRecord(t, "S1", [sku |-> sku, location |-> "IN_SCAN_AREA"], "Active") :
        t \in ValidationStamps, sku \in {"A", "B"}}

ValidationVisionRecords ==
    {VisionRecord(t, "S1", p, 95, "Active") : t \in ValidationStamps, p \in {"A", "B"}}

InitValidation ==
    /\ Idle
    /\ scores = <<0, 0>>
    /\ pos_events \in SeqsUpTo(ValidationPosRecords, MaxValidationLen)
    /\ rfid_events \in SeqsUpTo(ValidationRfidRecords, MaxValidationLen)
    /\ product_recognition \in SeqsUpTo(ValidationVisionRecords, MaxValidationLen)
    /\ queue_monitoring = <<>>
    /\ inventory_snapshots = <<>>
    /\ products = <<>>
    /\ thresholds \in {[DefaultThresholds EXCEPT !.rfid_pos_time_window = w] : w \in {0, 10}}

NextValidation == ProcessAllEvents \/ AgentXProcessAllEvents

SpecValidation == InitValidation /\ [][NextValidation]_vars

\* C28: after a pass no SCANNER_AVOIDANCE detection has the timestamp,
\* station and product SKU of a SUCCESS detection.
C28_ValidatedNeverFlagged ==
    op \in {"process_all_events", "AgentX_process_all_events"} =>
        \A j, k \in 1..Len(detected_events) :
            ~(/\ detected_events[j].type = "SCANNER_AVOIDANCE"
              /\ detected_events[k].type = "SUCCESS"
              /\ detected_events[j].timestamp = detected_events[k].timestamp
              /\ detected_events[j].station_id = detected_events[k].station_id
              /\ detected_events[j].product_sku = detected_events[k].product_sku)


(***************************************************************************)
(* Staffing needs against long queues in one pass (SpecEngine)             *)

PassRan == op \in {"process_all_events", "AgentX_process_all_events"}

\* C29: in a pass, where the staffing rule and the long-queue rule are
\* handed the same queue-length threshold, every STAFFING_NEEDS detection
\* has a LONG_QUEUE detection with the same timestamp and station.
C29_StaffingImpliesLongQueue ==
    PassRan =>
        \A j \in 1..Len(detected_events) :
            detected_events[j].type = "STAFFING_NEEDS" =>
                \E k \in 1..Len(detected_events) :
                    /\ detected_events[k].type = "LONG_QUEUE"
                    /\ detected_events[k].timestamp = detected_events[j].timestamp
                    /\ detected_events[k].station_id = detected_events[j].station_id

\* 8 customers waiting 10 s at threshold 5: staff is needed on the count
\* alone (8 > 7.5), and the queue is long
C29_Witness ==
    /\ op = "process_all_events"
    /\ queue_monitoring = <<QueueRecord(3, "S1", 8, 10, "Active")>>
    /\ \E j \in 1..Len(detected_events) : detected_events[j].type = "STAFFING_NEEDS"
    /\ \E k \in 1..Len(detected_events) : detected_events[k].type = "LONG_QUEUE"

\* 5 customers waiting 400 s: neither
C29_WitnessAtThreshold ==
    /\ op = "process_all_events"
    /\ queue_monitoring = <<QueueRecord(3, "S1", 5, 400, "Active")>>
    /\ \A j \in 1..Len(detected_events) :
           detected_events[j].type \notin {"STAFFING_NEEDS", "LONG_QUEUE"}
    /\ \E k \in 1..Len(detected_events) : detected_events[k].type = "LONG_WAIT"


(***************************************************************************)
(* What the high-risk aggregation of a pass rests on (SpecEngine)          *)

IsScannerAvoidance(event) == event.type = "SCANNER_AVOIDANCE"

IsHighRiskCustomer(event) == event.type = "HIGH_RISK_CUSTOMER"

IsCustomerFraud(event) == event.type \in {"BARCODE_SWITCHING", "WEIGHT_DISCREPANCY"}

\* C30: in a Team01 pass no SCANNER_AVOIDANCE detection carries a customer
\* id, and the HIGH_RISK_CUSTOMER detections are exactly those the
\* aggregator derives from the pass's BARCODE_SWITCHING and
\* WEIGHT_DISCREPANCY detections alone: qualification, score,
\* fraud_event_count and station breakdown included.
C30_ScannerAvoidanceNotCounted ==
    op = "process_all_events" =>
        /\ \A k \in 1..Len(detected_events) :
               IsScannerAvoidance(detected_events[k]) => ~Has(detected_events[k], "customer_id")
        /\ SelectSeq(detected_events, IsHighRiskCustomer)
               = detect_high_risk_customers(SelectSeq(detected_events, IsCustomerFraud),
                                            thresholds.high_risk_customer_events,
                                            thresholds.high_risk_customer_score)

\* a pass with a scanner avoidance at the station of customer C1's two fraud
\* detections: C1 is high risk on a count of two
C30_Witness ==
    /\ op = "process_all_events"
    /\ \E k \in 1..Len(detected_events) :
           /\ IsScannerAvoidance(detected_events[k])
           /\ detected_events[k].risk_score >= 700
    /\ \E k \in 1..Len(detected_events) :
           /\ IsHighRiskCustomer(detected_events[k])
           /\ detected_events[k].fraud_event_count = 2
           /\ detected_events[k].station_summary = <<[station_id |-> "S1", event_count |-> 2]>>

====
